---- MODULE Spec2Model ----
(***************************************************************************)
(* capycoin: the account store and the transfer engine.                    *)
(*                                                                         *)
(* The store is the SQLite database behind one rusqlite Connection: the    *)
(* tables `accounts` and `transactions`, each a sequence of rows in rowid  *)
(* order.  A rusqlite Transaction is modelled by a working copy `tx` of    *)
(* the tables: statements executed on the transaction change the working   *)
(* copy, commit installs it, and dropping the transaction without a commit *)
(* (an early `return Err`, a panic, a process crash) discards it.          *)
(*                                                                         *)
(* save_transaction is modelled statement by statement, so that a crash    *)
(* can fall between any two of its store statements.                       *)
(*                                                                         *)
(* Three specifications share the actions: Spec (the library called        *)
(* directly, with crashes and failing statements), SpecQueries (a store in *)
(* service with a moving clock and the read operations) and SpecServe (the *)
(* dispatch loop of the core: datagrams, envelopes, responses).            *)
(***************************************************************************)
EXTENDS Integers, Sequences, FiniteSets, TLC

\* ---- bounds of the model ----
\* the largest funds an account is saved with, and the largest amount sent;
\* all funds stay far inside the i64 range, so no sum of the code overflows
MaxFunds == 2
\* the latest reading of the wall clock
MaxClock == 1

\* ---- program constants ----
SeedFunds == 1000 * 100   \* create_seed_account(): funds
SeedStamp == 0            \* create_seed_account(): 2000-01-01 0:00 UTC

\* ---- the inputs tried ----
\* A uuid is opaque: the code only compares uuids for equality.  The k-th uuid
\* that Uuid::new_v4() hands out is named by the k-th element of these lists.
SeedAccountId == "4e9b616a"               \* seed_account_id()
NewAccountIds == <<"a1", "a2">>
NewTxIds      == <<"t1", "t2">>
AccountIds == {SeedAccountId} \cup {NewAccountIds[i] : i \in 1..Len(NewAccountIds)}
TxIds      == {NewTxIds[i] : i \in 1..Len(NewTxIds)}
FundsTried == {0 - 1, 0, MaxFunds}        \* Account.funds as the caller set it
Amounts    == {0 - 1, 0, 1, MaxFunds}     \* Transaction.amount
Fees       == {0 - 1, 0, 1}               \* Transaction.fee

VARIABLES
    accounts_table,   \* the table `accounts` exists
    ledger_table,     \* the table `transactions` exists
    accounts,         \* committed rows of `accounts`, in rowid order
    transactions,     \* committed rows of `transactions`, in rowid order
    tx,               \* the open rusqlite Transaction: its working copy
    pc,               \* position of the running call
    call,             \* the running call: operation and arguments
    tx_funds,         \* save_transaction's local `tx_funds`
    receipt_timestamp,\* save_transaction's local `receipt_timestamp`
    result,           \* what the call returned (at pc = "done")
    pre,              \* the committed store when the call was entered
    stmts,            \* store statements the running call has issued
    saved,            \* history: <<account_id, funds, created>> of every account saved, in the order saved
    now,              \* the wall clock; it stands still under Spec, whose claims do not read it
    server,           \* socket_server: where its loop stands
    datagram,         \* socket_server: the datagram of the current iteration
    attempts,         \* socket_server: calls of send_to in the current iteration
    sent,             \* socket_server: what the last send_to was given
    running,          \* socket_server: the flag `running` that the ctrlc handler clears
    inbox,            \* the datagrams in the socket's receive queue, oldest first
    arrived,          \* history: every datagram sent to the socket, in arrival order
    late,             \* history: a datagram was received after `running` was cleared
    raised,           \* history: the datagrams that had arrived when `running` was cleared, or -1
    client,           \* send_and_recv_msg: the call of each thread of a client process
    files,            \* the socket files that exist under /tmp
    millis,           \* the client process's Instant::now() - START_TIME, in milliseconds
    derived,          \* history: the addresses make_client_sock_address returned, in order
    http,             \* the gateway: the HTTP request each thread is handling
    auth              \* the gateway: rows of the table `auth`

\* the loop's flag and its socket's queue
loop == <<running, inbox, arrived, late, raised>>

\* the state of a client process
\* the state of the gateway
gw == <<http, auth>>

cli == <<client, files, millis, derived, gw>>

\* the state of the dispatch loop and of its clients
srv == <<server, datagram, attempts, sent, loop, cli>>

vars == <<accounts_table, ledger_table, accounts, transactions, tx, pc, call,
          tx_funds, receipt_timestamp, result, pre, stmts, saved, now, srv>>

\* ---- the values ----
Account(id, created, funds) ==
    [account_id |-> id, created |-> created, funds |-> funds]

Transaction(id, sender, receiver, amount, fee) ==
    [transaction_id |-> id, timestamp |-> now, sender_account_id |-> sender,
     receiver_account_id |-> receiver, amount |-> amount, fee |-> fee]

\* a Transaction value whose timestamp its caller has set
TransactionAt(t, stamp) == [t EXCEPT !.timestamp = stamp]

\* (mutant) the row carries the timestamp of the caller's Transaction
TransactionRowOfCaller(t, stamp) ==
    [transaction_id |-> t.transaction_id, timestamp |-> t.timestamp,
     sender_account_id |-> t.sender_account_id,
     receiver_account_id |-> t.receiver_account_id,
     amount |-> t.amount, fee |-> t.fee]

TransactionRow(t, stamp) ==
    [transaction_id |-> t.transaction_id, timestamp |-> stamp,
     sender_account_id |-> t.sender_account_id,
     receiver_account_id |-> t.receiver_account_id,
     amount |-> t.amount, fee |-> t.fee]

\* (mutant) the receipt carries the funds as they were selected
TransactionReceiptOldFunds(t, stamp, funds) ==
    [transaction_id |-> t.transaction_id, timestamp |-> stamp,
     sender_account_id |-> t.sender_account_id,
     receiver_account_id |-> t.receiver_account_id,
     sender_account_funds |-> funds + t.amount + t.fee, fee |-> t.fee]

TransactionReceipt(t, stamp, funds) ==
    [transaction_id |-> t.transaction_id, timestamp |-> stamp,
     sender_account_id |-> t.sender_account_id,
     receiver_account_id |-> t.receiver_account_id,
     sender_account_funds |-> funds, fee |-> t.fee]

NoCall   == [op |-> "none"]
NoTx     == [open |-> FALSE, accounts |-> <<>>, transactions |-> <<>>]
NoResult == [error |-> "none", detail |-> "", value |-> <<>>]
NoStore  == [accounts |-> <<>>, transactions |-> <<>>]
NoDatagram == [kind |-> "none"]
NoSend     == [to |-> "", bytes |-> <<>>, ok |-> FALSE]

\* the threads of a client process that call send_and_recv_msg
Callers == {"c1", "c2"}

\* a thread that is not in send_and_recv_msg
NotCalling ==
    [pc |-> "idle", address |-> "", bound |-> FALSE, message_id |-> "",
     sends |-> 0, recvs |-> 0, reply |-> NoDatagram, result |-> [some |-> FALSE],
     queue |-> <<>>]

\* a thread of the gateway that handles no HTTP request
NoRequest ==
    [state |-> "none", route |-> "", path |-> "", header |-> [scheme |-> "none", token |-> ""],
     at |-> 0, message |-> [type |-> "none"], status |-> 0]

\* no client process runs
NoClient ==
    /\ client = [c \in Callers |-> NotCalling]
    /\ files = {}
    /\ millis = 0
    /\ derived = <<>>
    /\ http = [c \in Callers |-> NoRequest]
    /\ auth = <<>>

\* no socket is bound: the functions of the library are called directly
NoServer ==
    /\ server = "Off"
    /\ datagram = NoDatagram
    /\ attempts = 0
    /\ sent = NoSend
    /\ running = TRUE
    /\ inbox = <<>>
    /\ arrived = <<>>
    /\ late = FALSE
    /\ raised = 0 - 1
    /\ NoClient

Ok(v)          == [error |-> "Ok", detail |-> "", value |-> v]
Err(e)         == [error |-> e, detail |-> "", value |-> <<>>]
SQLError(what) == [error |-> "SQLError", detail |-> what, value |-> <<>>]

\* ---- SQL over a table (a sequence of rows) ----
AccountRows(rows, id) == {i \in 1..Len(rows) : rows[i].account_id = id}

SelectFunds(rows, id) == rows[CHOOSE i \in AccountRows(rows, id) : TRUE].funds

\* (mutant) the SELECT of load_account without its WHERE clause
SelectAccountAnyId(rows, id) == rows[1]

\* SELECT account_id, created, funds FROM accounts WHERE account_id = id
SelectAccount(rows, id) == rows[CHOOSE i \in AccountRows(rows, id) : TRUE]

\* the rows of a table newest first
Reversed(rows) == [i \in 1..Len(rows) |-> rows[Len(rows) + 1 - i]]

\* (mutant) the scan of get_accounts walks the table backwards
ScanAccountsBackwards(rows) == Reversed(rows)

\* SELECT account_id, created, funds FROM accounts: SQLite scans the table
\* in rowid order, which is the order of the INSERTs
ScanAccounts(rows) == rows

\* UPDATE accounts SET funds = f WHERE account_id = id
UpdateFunds(rows, id, f) ==
    [i \in 1..Len(rows) |->
        IF rows[i].account_id = id THEN [rows[i] EXCEPT !.funds = f] ELSE rows[i]]

\* (mutant) the same UPDATE without its WHERE clause
AddFundsEveryRow(rows, id, d) ==
    [i \in 1..Len(rows) |-> [rows[i] EXCEPT !.funds = rows[i].funds + d]]

\* UPDATE accounts SET funds = funds + d WHERE account_id = id
AddFunds(rows, id, d) ==
    [i \in 1..Len(rows) |->
        IF rows[i].account_id = id
        THEN [rows[i] EXCEPT !.funds = rows[i].funds + d] ELSE rows[i]]

TransactionRows(rows, id) == {i \in 1..Len(rows) : rows[i].transaction_id = id}

\* SELECT ... FROM transactions WHERE transaction_id = id
SelectTransaction(rows, id) == rows[CHOOSE i \in TransactionRows(rows, id) : TRUE]

\* timestamp >= begin_time AND timestamp <= end_time
InRange(r, begin_time, end_time) == r.timestamp >= begin_time /\ r.timestamp <= end_time

\* (mutant) the range is half open: timestamp < end_time
SelectTransactionsBeforeEnd(rows, id, begin_time, end_time) ==
    LET Sent(r) == r.sender_account_id = id
                   /\ r.timestamp >= begin_time /\ r.timestamp < end_time
        Received(r) == r.receiver_account_id = id /\ r.sender_account_id # id
                       /\ r.timestamp >= begin_time /\ r.timestamp < end_time
    IN SelectSeq(rows, Sent) \o SelectSeq(rows, Received)

\* SELECT ... FROM transactions
\*   WHERE (sender_account_id = id or receiver_account_id = id)
\*   AND timestamp >= begin_time AND timestamp <= end_time
\* The statement has no ORDER BY.  With the two indexes of create_ledger_table
\* SQLite answers the OR from the indexes, one after the other: the rows the
\* sender index finds, in rowid order, and then the rows the receiver index
\* finds that were not found before, in rowid order.
SelectTransactions(rows, id, begin_time, end_time) ==
    LET Sent(r) == r.sender_account_id = id /\ InRange(r, begin_time, end_time)
        Received(r) == r.receiver_account_id = id /\ r.sender_account_id # id
                       /\ InRange(r, begin_time, end_time)
    IN SelectSeq(rows, Sent) \o SelectSeq(rows, Received)

\* Uuid::new_v4(): the first uuid not handed out and stored before
Unused(ids, used) == {i \in 1..Len(ids) : ids[i] \notin used}
HasFresh(ids, used) == Unused(ids, used) # {}
Fresh(ids, used) == ids[CHOOSE i \in Unused(ids, used) : \A j \in Unused(ids, used) : i <= j]

StoredAccountIds == {accounts[i].account_id : i \in 1..Len(accounts)}
StoredTxIds      == {transactions[i].transaction_id : i \in 1..Len(transactions)}

\* the uuids a caller can hold: those stored, and a new one
AccountIdsTried ==
    StoredAccountIds \cup
    (IF HasFresh(NewAccountIds, StoredAccountIds)
     THEN {Fresh(NewAccountIds, StoredAccountIds)} ELSE {})
TxIdsTried ==
    StoredTxIds \cup
    (IF HasFresh(NewTxIds, StoredTxIds) THEN {Fresh(NewTxIds, StoredTxIds)} ELSE {})

\* (mutant) the accounts table without CHECK (funds >= 0)
AccountsCheckOff(a) == TRUE

\* the CHECK constraints of the two tables
AccountsCheck(a) == a.funds >= 0

TransactionsCheck(r) == r.amount > 0 /\ r.fee >= 0

\* ---- the store as a call sees it ----
Store == [accounts |-> accounts, transactions |-> transactions]

Init ==
    /\ accounts_table = FALSE
    /\ ledger_table = FALSE
    /\ accounts = <<>>
    /\ transactions = <<>>
    /\ tx = NoTx
    /\ pc \in {"idle", "down"}   \* a connection on a fresh store, or the core not yet started
    /\ call = NoCall
    /\ tx_funds = 0
    /\ receipt_timestamp = 0
    /\ result = NoResult
    /\ pre = NoStore
    /\ stmts = 0
    /\ saved = <<>>
    /\ now = 0
    /\ NoServer

\* (mutant) the writes of the dropped transaction stay, as they would had
\* the statements been executed on the connection itself
ReturnKeepsWrites(r) ==
    /\ result' = r
    /\ pc' = "done"
    /\ tx' = NoTx
    /\ accounts' = IF tx.open THEN tx.accounts ELSE accounts
    /\ transactions' = IF tx.open THEN tx.transactions ELSE transactions

\* A call returns: the caller takes `result` and pc becomes "done".  The
\* rusqlite Transaction, if one is open, is dropped without a commit, which
\* rolls it back: the committed tables stay as they are.
Return(r) ==
    /\ result' = r
    /\ pc' = "done"
    /\ tx' = NoTx
    /\ UNCHANGED <<accounts, transactions>>

\* The caller has taken the result; the connection is free for the next call.
Continue ==
    /\ pc = "done"
    /\ pc' = "idle"
    /\ call' = NoCall
    /\ result' = NoResult
    /\ pre' = NoStore
    /\ stmts' = 0
    /\ tx_funds' = 0
    /\ receipt_timestamp' = 0
    /\ UNCHANGED <<accounts_table, ledger_table, accounts, transactions, tx, saved, now, srv>>

\* ---- account.rs ----
create_accounts_table ==
    /\ pc = "idle"
    /\ accounts_table' = TRUE
    /\ UNCHANGED <<ledger_table, accounts, transactions, tx, pc, call, tx_funds,
                   receipt_timestamp, result, pre, stmts, saved, now, srv>>

\* Account::new(), with `funds` then set by the caller as the tests do
NewAccount(id, funds) == Account(id, now, funds)

create_seed_account == Account(SeedAccountId, SeedStamp, SeedFunds)

\* the outcome of the INSERT of save_account, as save_account maps it
SaveAccountError(rows, a) ==
    IF ~accounts_table THEN "SQLError"
    ELSE IF AccountRows(rows, a.account_id) # {} THEN "AccountAlreadyExists"
    ELSE IF ~AccountsCheck(a) THEN "AccountAlreadyExists"
    ELSE "Ok"

\* (mutant) INSERT OR REPLACE: saving a stored account id overwrites its row
save_accountReplacing(a) ==
    /\ pc = "idle"
    /\ call' = [op |-> "save_account", account |-> a]
    /\ pre' = Store
    /\ stmts' = 3
    /\ accounts' = IF AccountRows(accounts, a.account_id) = {} THEN Append(accounts, a)
                   ELSE [i \in 1..Len(accounts) |->
                            IF accounts[i].account_id = a.account_id THEN a ELSE accounts[i]]
    /\ saved' = Append(saved, <<a.account_id, a.funds, a.created>>)
    /\ result' = Ok([account_id |-> a.account_id, timestamp |-> now])
    /\ pc' = "done"
    /\ UNCHANGED <<accounts_table, ledger_table, transactions, tx, tx_funds,
                   receipt_timestamp, now, srv>>

save_account(a) ==
    /\ pc = "idle"
    /\ call' = [op |-> "save_account", account |-> a]
    /\ pre' = Store
    /\ LET e == SaveAccountError(accounts, a) IN
        IF e = "Ok"
        THEN /\ accounts' = Append(accounts, a)
             /\ saved' = Append(saved, <<a.account_id, a.funds, a.created>>)
             /\ stmts' = 3
             /\ result' = Ok([account_id |-> a.account_id, timestamp |-> now])
        ELSE /\ accounts' = accounts
             /\ saved' = saved
             /\ stmts' = 2
             /\ result' = IF e = "SQLError" THEN SQLError("no such table: accounts")
                          ELSE Err(e)
    /\ pc' = "done"
    /\ UNCHANGED <<accounts_table, ledger_table, transactions, tx, tx_funds,
                   receipt_timestamp, now, srv>>

\* what load_account returns on the committed store
load_accountResult(id) ==
    IF ~accounts_table THEN SQLError("no such table: accounts")
    ELSE IF AccountRows(accounts, id) = {} THEN Err("AccountDoesNotExist")
    ELSE Ok(SelectAccount(accounts, id))

\* (mutant) load_account stamps the row it has read
load_accountTouching(id) ==
    /\ pc = "idle"
    /\ call' = [op |-> "load_account", account_id |-> id]
    /\ pre' = Store
    /\ stmts' = 2
    /\ result' = load_accountResult(id)
    /\ accounts' = [i \in 1..Len(accounts) |->
                       IF accounts[i].account_id = id
                       THEN [accounts[i] EXCEPT !.created = now + 1] ELSE accounts[i]]
    /\ pc' = "done"
    /\ UNCHANGED <<accounts_table, ledger_table, transactions, tx, tx_funds,
                   receipt_timestamp, saved, now, srv>>

load_account(id) ==
    /\ pc = "idle"
    /\ call' = [op |-> "load_account", account_id |-> id]
    /\ pre' = Store
    /\ stmts' = 1
    /\ result' = load_accountResult(id)
    /\ pc' = "done"
    /\ UNCHANGED <<accounts_table, ledger_table, accounts, transactions, tx, tx_funds,
                   receipt_timestamp, saved, now, srv>>

\* what get_accounts returns on the committed store
get_accountsResult ==
    IF ~accounts_table THEN SQLError("no such table: accounts")
    ELSE Ok(ScanAccounts(accounts))

get_accounts ==
    /\ pc = "idle"
    /\ call' = [op |-> "get_accounts"]
    /\ pre' = Store
    /\ stmts' = 1
    /\ result' = get_accountsResult
    /\ pc' = "done"
    /\ UNCHANGED <<accounts_table, ledger_table, accounts, transactions, tx, tx_funds,
                   receipt_timestamp, saved, now, srv>>

\* ---- ledger.rs ----
create_ledger_table ==
    /\ pc = "idle"
    /\ ledger_table' = TRUE
    /\ UNCHANGED <<accounts_table, accounts, transactions, tx, pc, call, tx_funds,
                   receipt_timestamp, result, pre, stmts, saved, now, srv>>

\* (mutant) sender and receiver are not compared
SanityCheckNoSelf(t) ==
    IF t.amount = 0 THEN "AmountIsZero"
    ELSE IF t.amount < 0 THEN "AmountIsNegative"
    ELSE IF t.fee < 0 THEN "FeeIsNegative"
    ELSE "Ok"

\* (mutant) the fee is checked before the amount
SanityCheckFeeFirst(t) ==
    IF t.fee < 0 THEN "FeeIsNegative"
    ELSE IF t.amount = 0 THEN "AmountIsZero"
    ELSE IF t.amount < 0 THEN "AmountIsNegative"
    ELSE IF t.sender_account_id = t.receiver_account_id THEN "SenderReceiverAreTheSame"
    ELSE "Ok"

\* the sanity checks of save_transaction, in the order of the code
SanityCheck(t) ==
    IF t.amount = 0 THEN "AmountIsZero"
    ELSE IF t.amount < 0 THEN "AmountIsNegative"
    ELSE IF t.fee < 0 THEN "FeeIsNegative"
    ELSE IF t.sender_account_id = t.receiver_account_id THEN "SenderReceiverAreTheSame"
    ELSE "Ok"

\* (mutant) any fee is taken
FeeNotAsserted(t) == TRUE

\* assert!(transaction.fee == 0)
FeeImplemented(t) == t.fee = 0

\* (mutant) only the fee is deducted
DeductedFeeOnly(funds, t) == funds - t.fee

\* let deducted = amount + fee as i64; tx_funds - deducted
Deducted(funds, t) == funds - (t.amount + t.fee)

\* save_transaction up to the opening of the exclusive transaction
save_transaction(t) ==
    /\ pc = "idle"
    /\ call' = [op |-> "save_transaction", transaction |-> t]
    /\ pre' = Store
    /\ UNCHANGED <<accounts_table, ledger_table, tx_funds, receipt_timestamp, saved, now, srv>>
    /\ IF SanityCheck(t) # "Ok"
       THEN /\ stmts' = 0
            /\ Return(Err(SanityCheck(t)))
       ELSE IF ~FeeImplemented(t)
       THEN \* the assertion panics: the call never returns
            /\ stmts' = 0
            /\ pc' = "down"
            /\ UNCHANGED <<accounts, transactions, tx, result>>
       ELSE /\ stmts' = 1
            /\ tx' = [open |-> TRUE, accounts |-> accounts, transactions |-> transactions]
            /\ pc' = "select"
            /\ UNCHANGED <<accounts, transactions, result>>

\* "Check sender funds": the SELECT, the deduction and the funds check
CheckSenderFunds ==
    /\ pc = "select"
    /\ stmts' = stmts + 1
    /\ UNCHANGED <<accounts_table, ledger_table, call, receipt_timestamp, pre, saved, now, srv>>
    /\ LET t == call.transaction IN
        IF ~accounts_table
        THEN Return(SQLError("no such table: accounts")) /\ UNCHANGED tx_funds
        ELSE IF AccountRows(tx.accounts, t.sender_account_id) = {}
        THEN Return(Err("SenderAccountDoesNotExist")) /\ UNCHANGED tx_funds
        ELSE LET funds == Deducted(SelectFunds(tx.accounts, t.sender_account_id), t) IN
            IF funds < 0
            THEN Return(Err("SenderAccountNotEnoughFunds")) /\ UNCHANGED tx_funds
            ELSE /\ tx_funds' = funds
                 /\ pc' = "debit"
                 /\ UNCHANGED <<accounts, transactions, tx, result>>

\* (mutant) the sender's UPDATE is executed on the connection, outside the
\* transaction, and so is committed at once
UpdateSenderAutocommit ==
    /\ pc = "debit"
    /\ stmts' = stmts + 1
    /\ UNCHANGED <<accounts_table, ledger_table, call, tx_funds, receipt_timestamp, pre, saved, now, srv>>
    /\ LET t == call.transaction IN
        /\ accounts' = UpdateFunds(accounts, t.sender_account_id, tx_funds)
        /\ tx' = [tx EXCEPT !.accounts = UpdateFunds(@, t.sender_account_id, tx_funds)]
        /\ pc' = "credit"
        /\ UNCHANGED <<transactions, result>>

\* "Sender account": UPDATE accounts SET funds = tx_funds
UpdateSender ==
    /\ pc = "debit"
    /\ stmts' = stmts + 1
    /\ UNCHANGED <<accounts_table, ledger_table, call, tx_funds, receipt_timestamp, pre, saved, now, srv>>
    /\ LET t == call.transaction IN
        IF AccountRows(tx.accounts, t.sender_account_id) = {}
        THEN Return(Err("SenderAccountDoesNotExist"))
        ELSE IF ~AccountsCheck([funds |-> tx_funds])
        THEN Return(SQLError("CHECK constraint failed"))
        ELSE /\ tx' = [tx EXCEPT !.accounts = UpdateFunds(@, t.sender_account_id, tx_funds)]
             /\ pc' = "credit"
             /\ UNCHANGED <<accounts, transactions, result>>

\* (mutant) an UPDATE that changed no row is taken for a success
UpdateReceiverAnyRows ==
    /\ pc = "credit"
    /\ stmts' = stmts + 1
    /\ UNCHANGED <<accounts_table, ledger_table, call, tx_funds, receipt_timestamp, pre, saved, now, srv>>
    /\ tx' = [tx EXCEPT !.accounts = AddFunds(@, call.transaction.receiver_account_id,
                                              call.transaction.amount)]
    /\ pc' = "insert"
    /\ UNCHANGED <<accounts, transactions, result>>

\* "Receiver account": UPDATE accounts SET funds = funds + amount
UpdateReceiver ==
    /\ pc = "credit"
    /\ stmts' = stmts + 1
    /\ UNCHANGED <<accounts_table, ledger_table, call, tx_funds, receipt_timestamp, pre, saved, now, srv>>
    /\ LET t == call.transaction IN
        IF AccountRows(tx.accounts, t.receiver_account_id) = {}
        THEN Return(Err("ReceiverAccountDoesNotExist"))
        ELSE /\ tx' = [tx EXCEPT !.accounts = AddFunds(@, t.receiver_account_id, t.amount)]
             /\ pc' = "insert"
             /\ UNCHANGED <<accounts, transactions, result>>

\* "Update ledger": the timestamp is read, then INSERT INTO transactions
UpdateLedger ==
    /\ pc = "insert"
    /\ stmts' = stmts + 1
    /\ receipt_timestamp' = now
    /\ UNCHANGED <<accounts_table, ledger_table, call, tx_funds, pre, saved, now, srv>>
    /\ LET row == TransactionRow(call.transaction, now) IN
        IF ~ledger_table
        THEN Return(SQLError("no such table: transactions"))
        ELSE IF TransactionRows(tx.transactions, row.transaction_id) # {}
        THEN Return(SQLError("UNIQUE constraint failed"))
        ELSE IF ~TransactionsCheck(row)
        THEN Return(SQLError("CHECK constraint failed"))
        ELSE /\ tx' = [tx EXCEPT !.transactions = Append(@, row)]
             /\ pc' = "commit"
             /\ UNCHANGED <<accounts, transactions, result>>

\* (mutant) the receipt is returned without tx.commit(): the transaction is
\* dropped and rolled back
CommitOmitted ==
    /\ pc = "commit"
    /\ stmts' = stmts + 1
    /\ tx' = NoTx
    /\ result' = Ok(TransactionReceipt(call.transaction, receipt_timestamp, tx_funds))
    /\ pc' = "done"
    /\ UNCHANGED <<accounts_table, ledger_table, accounts, transactions, call, tx_funds,
                   receipt_timestamp, pre, saved, now, srv>>

\* tx.commit() and the receipt
Commit ==
    /\ pc = "commit"
    /\ stmts' = stmts + 1
    /\ accounts' = tx.accounts
    /\ transactions' = tx.transactions
    /\ tx' = NoTx
    /\ result' = Ok(TransactionReceipt(call.transaction, receipt_timestamp, tx_funds))
    /\ pc' = "done"
    /\ UNCHANGED <<accounts_table, ledger_table, call, tx_funds, receipt_timestamp, pre, saved, now, srv>>

\* A statement of the open transaction fails in the store (I/O error, disk
\* full): every `Err(err) => return Err(err.into())` and `?` of save_transaction.
StatementFails ==
    /\ pc \in {"select", "debit", "credit", "insert", "commit"}
    /\ stmts' = stmts + 1
    /\ Return(SQLError("disk I/O error"))
    /\ UNCHANGED <<accounts_table, ledger_table, call, tx_funds, receipt_timestamp, pre, saved, now, srv>>

\* what get_transactions returns on the committed store
get_transactionsResult(account_id, begin_time, end_time) ==
    IF ~ledger_table THEN SQLError("no such table: transactions")
    ELSE Ok(SelectTransactions(transactions, account_id, begin_time, end_time))

get_transactions(account_id, begin_time, end_time) ==
    /\ pc = "idle"
    /\ call' = [op |-> "get_transactions", account_id |-> account_id,
                begin_time |-> begin_time, end_time |-> end_time]
    /\ pre' = Store
    /\ stmts' = 1
    /\ result' = get_transactionsResult(account_id, begin_time, end_time)
    /\ pc' = "done"
    /\ UNCHANGED <<accounts_table, ledger_table, accounts, transactions, tx, tx_funds,
                   receipt_timestamp, saved, now, srv>>

\* (mutant) the caller's relation to the transaction is checked by the query
\* itself, so a transaction of others looks like one that does not exist
get_transactionResultHiding(account_id, transaction_id) ==
    IF ~ledger_table THEN SQLError("no such table: transactions")
    ELSE IF TransactionRows(transactions, transaction_id) = {}
    THEN Err("TransactionDoesNotExist")
    ELSE LET row == SelectTransaction(transactions, transaction_id) IN
         IF row.sender_account_id = account_id \/ row.receiver_account_id = account_id
         THEN Ok(row)
         ELSE Err("TransactionDoesNotExist")

\* what get_transaction returns on the committed store
get_transactionResult(account_id, transaction_id) ==
    IF ~ledger_table THEN SQLError("no such table: transactions")
    ELSE IF TransactionRows(transactions, transaction_id) = {}
    THEN Err("TransactionDoesNotExist")
    ELSE LET row == SelectTransaction(transactions, transaction_id) IN
         IF row.sender_account_id = account_id \/ row.receiver_account_id = account_id
         THEN Ok(row)
         ELSE Err("PermissionDenied")

get_transaction(account_id, transaction_id) ==
    /\ pc = "idle"
    /\ call' = [op |-> "get_transaction", account_id |-> account_id,
                transaction_id |-> transaction_id]
    /\ pre' = Store
    /\ stmts' = 1
    /\ result' = get_transactionResult(account_id, transaction_id)
    /\ pc' = "done"
    /\ UNCHANGED <<accounts_table, ledger_table, accounts, transactions, tx, tx_funds,
                   receipt_timestamp, saved, now, srv>>

\* ---- the caller of the read operations ----
ReadOps == {"load_account", "get_accounts", "get_transactions", "get_transaction"}

\* what the read call c returns on the committed store
ReadResult(c) ==
    CASE c.op = "load_account" -> load_accountResult(c.account_id)
      [] c.op = "get_accounts" -> get_accountsResult
      [] c.op = "get_transactions" ->
            get_transactionsResult(c.account_id, c.begin_time, c.end_time)
      [] c.op = "get_transaction" -> get_transactionResult(c.account_id, c.transaction_id)

\* The caller makes the read call it has just made a second time, with the
\* same arguments, and takes the new result; `stmts` counts the statement of
\* the second call too.
CallAgain ==
    /\ pc = "done"
    /\ call.op \in ReadOps
    /\ stmts = 1
    /\ stmts' = stmts + 1
    /\ pre' = Store
    /\ result' = ReadResult(call)
    /\ UNCHANGED <<accounts_table, ledger_table, accounts, transactions, tx, pc, call,
                   tx_funds, receipt_timestamp, saved, now, srv>>

\* OffsetDateTime::now_utc() reads later the later it is called
Tick ==
    /\ pc = "idle"
    /\ now < MaxClock
    /\ now' = now + 1
    /\ UNCHANGED <<accounts_table, ledger_table, accounts, transactions, tx, pc, call,
                   tx_funds, receipt_timestamp, result, pre, stmts, saved, srv>>

\* ---- the process ----
\* The process dies (kill, power loss, panic): its memory is gone, and the
\* open transaction was never committed, so recovery discards it.  `stmts`
\* keeps how far the interrupted call had come.
Crash ==
    /\ pc \notin {"down", "idle"}
    /\ pc' = "down"
    /\ tx' = NoTx
    /\ call' = NoCall
    /\ result' = NoResult
    /\ pre' = NoStore
    /\ tx_funds' = 0
    /\ receipt_timestamp' = 0
    /\ UNCHANGED <<accounts_table, ledger_table, accounts, transactions, stmts, saved, now, srv>>

\* main(): open the store, create the tables, save the seed account, serve
main ==
    /\ pc = "down"
    /\ accounts_table' = TRUE
    /\ ledger_table' = TRUE
    /\ IF AccountRows(accounts, SeedAccountId) = {}
       THEN /\ accounts' = Append(accounts, create_seed_account)
            /\ saved' = Append(saved, <<SeedAccountId, SeedFunds, SeedStamp>>)
       ELSE UNCHANGED <<accounts, saved>>
    /\ pc' = "idle"
    /\ call' = NoCall
    /\ result' = NoResult
    /\ pre' = NoStore
    /\ stmts' = 0
    /\ tx_funds' = 0
    /\ receipt_timestamp' = 0
    /\ UNCHANGED <<transactions, tx, now, srv>>

Next ==
    \/ create_accounts_table
    \/ create_ledger_table
    \/ \E id \in AccountIdsTried, funds \in FundsTried : save_account(NewAccount(id, funds))
    \/ \E id \in AccountIds : load_account(id)
    \/ \E id \in TxIdsTried, s \in AccountIds, r \in AccountIds, a \in Amounts, f \in Fees :
            save_transaction(Transaction(id, s, r, a, f))
    \/ CheckSenderFunds
    \/ UpdateSender
    \/ UpdateReceiver
    \/ UpdateLedger
    \/ Commit
    \/ StatementFails
    \/ Continue
    \/ Crash
    \/ main

Spec == Init /\ [][Next]_vars

\* ---- the store in service: accounts, transfers and the read operations ----
\* a fresh store with its tables created (as the tests set it up), or the
\* store after main() has run on it
InitQueries ==
    /\ accounts_table = TRUE
    /\ ledger_table = TRUE
    /\ accounts \in {<<>>, <<create_seed_account>>}
    /\ transactions = <<>>
    /\ tx = NoTx
    /\ pc = "idle"
    /\ call = NoCall
    /\ tx_funds = 0
    /\ receipt_timestamp = 0
    /\ result = NoResult
    /\ pre = NoStore
    /\ stmts = 0
    /\ saved = [i \in 1..Len(accounts) |-> <<SeedAccountId, SeedFunds, SeedStamp>>]
    /\ now = 0
    /\ NoServer

AmountsSent == {1, MaxFunds}
TimesTried  == 0..MaxClock

NextQueries ==
    \/ Tick
    \/ \E id \in AccountIdsTried, funds \in FundsTried : save_account(NewAccount(id, funds))
    \/ \E id \in TxIdsTried, s \in AccountIds, r \in AccountIds, a \in AmountsSent :
            save_transaction(Transaction(id, s, r, a, 0))
    \/ CheckSenderFunds
    \/ UpdateSender
    \/ UpdateReceiver
    \/ UpdateLedger
    \/ Commit
    \/ \E id \in AccountIds : load_account(id)
    \/ get_accounts
    \/ \E id \in AccountIds, begin_time \in TimesTried, end_time \in TimesTried :
            get_transactions(id, begin_time, end_time)
    \/ \E id \in AccountIds, t \in TxIds : get_transaction(id, t)
    \/ CallAgain
    \/ Continue

SpecQueries == InitQueries /\ [][NextQueries]_vars

\* ---- message.rs ----
Some(x) == [some |-> TRUE, value |-> x]
None    == [some |-> FALSE]

\* JSON text is a sequence of tokens: object keys and variant names, strings
\* (uuids, error texts), numbers, and whole values of the store
Key(k) == [t |-> "key", s |-> k, n |-> 0]
Str(x) == [t |-> "str", s |-> x, n |-> 0]
Num(i) == [t |-> "num", s |-> "", n |-> i]
Val(x) == [t |-> "val", s |-> "", n |-> 0, v |-> x]

IsKey(tok, k) == tok.t = "key" /\ tok.s = k
IsStr(tok) == tok.t = "str"
IsNum(tok) == tok.t = "num"

\* enum ClientMessage
CreateNewAccount == [type |-> "CreateNewAccount"]
GetAccount(account_id) == [type |-> "GetAccount", account_id |-> account_id]
GetAccounts == [type |-> "GetAccounts"]
GetTransactions(account_id, time_range_start, time_range_end) ==
    [type |-> "GetTransactions", account_id |-> account_id,
     time_range_start |-> time_range_start, time_range_end |-> time_range_end]
GetTransaction(account_id, transaction_id) ==
    [type |-> "GetTransaction", account_id |-> account_id,
     transaction_id |-> transaction_id]
CreateTransaction(sender_id, receiver_id, amount) ==
    [type |-> "CreateTransaction", sender_id |-> sender_id,
     receiver_id |-> receiver_id, amount |-> amount]

\* (mutant) CreateTransaction is written with its two account ids exchanged
ClientMessageJsonSwapped(m) ==
    CASE m.type = "CreateNewAccount" -> <<Str("CreateNewAccount")>>
      [] m.type = "GetAccount" ->
            <<Key("GetAccount"), Key("account_id"), Str(m.account_id)>>
      [] m.type = "GetAccounts" -> <<Str("GetAccounts")>>
      [] m.type = "GetTransactions" ->
            <<Key("GetTransactions"), Key("account_id"), Str(m.account_id),
              Key("time_range_start"), Num(m.time_range_start),
              Key("time_range_end"), Num(m.time_range_end)>>
      [] m.type = "GetTransaction" ->
            <<Key("GetTransaction"), Key("account_id"), Str(m.account_id),
              Key("transaction_id"), Str(m.transaction_id)>>
      [] m.type = "CreateTransaction" ->
            <<Key("CreateTransaction"), Key("sender_id"), Str(m.receiver_id),
              Key("receiver_id"), Str(m.sender_id), Key("amount"), Num(m.amount)>>

\* #[derive(Serialize)] for ClientMessage: a unit variant is its name as a
\* string, a struct variant an object keyed by its name
ClientMessageJson(m) ==
    CASE m.type = "CreateNewAccount" -> <<Str("CreateNewAccount")>>
      [] m.type = "GetAccount" ->
            <<Key("GetAccount"), Key("account_id"), Str(m.account_id)>>
      [] m.type = "GetAccounts" -> <<Str("GetAccounts")>>
      [] m.type = "GetTransactions" ->
            <<Key("GetTransactions"), Key("account_id"), Str(m.account_id),
              Key("time_range_start"), Num(m.time_range_start),
              Key("time_range_end"), Num(m.time_range_end)>>
      [] m.type = "GetTransaction" ->
            <<Key("GetTransaction"), Key("account_id"), Str(m.account_id),
              Key("transaction_id"), Str(m.transaction_id)>>
      [] m.type = "CreateTransaction" ->
            <<Key("CreateTransaction"), Key("sender_id"), Str(m.sender_id),
              Key("receiver_id"), Str(m.receiver_id), Key("amount"), Num(m.amount)>>

\* text is the object of the struct variant `name` with exactly these fields,
\* each holding a token of its kind ("str" or "num")
IsVariant(text, name, fields, kinds) ==
    /\ Len(text) = 1 + 2 * Len(fields)
    /\ IsKey(text[1], name)
    /\ \A i \in 1..Len(fields) :
         /\ IsKey(text[2 * i], fields[i])
         /\ text[2 * i + 1].t = kinds[i]

\* #[derive(Deserialize)] for ClientMessage, on the texts tried here (serde
\* takes the keys of an object in any order; every text tried has them in
\* the order of the struct)
ClientMessageFromJson(text) ==
    IF Len(text) = 1 /\ IsStr(text[1]) /\ text[1].s = "CreateNewAccount"
    THEN Some(CreateNewAccount)
    ELSE IF Len(text) = 1 /\ IsStr(text[1]) /\ text[1].s = "GetAccounts"
    THEN Some(GetAccounts)
    ELSE IF IsVariant(text, "GetAccount", <<"account_id">>, <<"str">>)
    THEN Some(GetAccount(text[3].s))
    ELSE IF IsVariant(text, "GetTransactions",
                      <<"account_id", "time_range_start", "time_range_end">>,
                      <<"str", "num", "num">>)
    THEN Some(GetTransactions(text[3].s, text[5].n, text[7].n))
    ELSE IF IsVariant(text, "GetTransaction", <<"account_id", "transaction_id">>,
                      <<"str", "str">>)
    THEN Some(GetTransaction(text[3].s, text[5].s))
    ELSE IF IsVariant(text, "CreateTransaction", <<"sender_id", "receiver_id", "amount">>,
                      <<"str", "str", "num">>)
    THEN Some(CreateTransaction(text[3].s, text[5].s, text[7].n))
    ELSE None

ClientMessagePacket(v, message_id, message) ==
    [v |-> v, message_id |-> message_id, message |-> message]

\* the protocol version
ProtocolVersion == 1

\* ClientMessagePacket::new(), with the uuid that Uuid::new_v4() gave
ClientMessagePacketNew(msg, message_id) ==
    ClientMessagePacket(ProtocolVersion, message_id, msg)

\* ClientMessagePacket::to_json()
ClientMessagePacket_to_json(p) ==
    <<Key("v"), Num(p.v), Key("message_id"), Str(p.message_id), Key("message")>>
    \o ClientMessageJson(p.message)

\* the envelope that the text holds, whatever its version
ClientMessagePacketParsed(text) ==
    IF /\ Len(text) >= 6
       /\ IsKey(text[1], "v") /\ IsNum(text[2])
       /\ IsKey(text[3], "message_id") /\ IsStr(text[4])
       /\ IsKey(text[5], "message")
       /\ ClientMessageFromJson(SubSeq(text, 6, Len(text))).some
    THEN Some(ClientMessagePacket(text[2].n, text[4].s,
                                  ClientMessageFromJson(SubSeq(text, 6, Len(text))).value))
    ELSE None

\* (mutant) from_json without the match on msg.v
ClientMessagePacket_from_jsonAnyVersion(text) == ClientMessagePacketParsed(text)

\* ClientMessagePacket::from_json()
ClientMessagePacket_from_json(text) ==
    LET msg == ClientMessagePacketParsed(text) IN
    IF ~msg.some THEN None
    ELSE IF msg.value.v = ProtocolVersion THEN msg
    ELSE None

\* ServerError::from(AccountError) and ServerError::from(TransactionError):
\* the kind of the error, and its Debug text
ErrorType(op) ==
    IF op \in {"save_account", "load_account", "get_accounts"}
    THEN "AccountError" ELSE "TransactionError"

\* (mutant) the list of accounts is answered in the variant of one account
ResponseVariantOfOne(op) ==
    CASE op = "save_account" -> "CreateNewAccountResponse"
      [] op = "load_account" -> "GetAccountResponse"
      [] op = "get_accounts" -> "GetAccountResponse"
      [] op = "get_transactions" -> "GetTransactionsResponse"
      [] op = "get_transaction" -> "GetTransactionResponse"
      [] op = "save_transaction" -> "CreateTransactionResponse"

\* enum ServerMessage: the variant that answers the operation
ResponseVariant(op) ==
    CASE op = "save_account" -> "CreateNewAccountResponse"
      [] op = "load_account" -> "GetAccountResponse"
      [] op = "get_accounts" -> "GetAccountsResponse"
      [] op = "get_transactions" -> "GetTransactionsResponse"
      [] op = "get_transaction" -> "GetTransactionResponse"
      [] op = "save_transaction" -> "CreateTransactionResponse"

\* (mutant) an error of the handler is answered as an empty success
ServerMessageFromHidingErrors(op, r) ==
    [variant |-> ResponseVariant(op), ok |-> TRUE,
     value |-> r.value, error_type |-> "", error_message |-> ""]

\* format!("{:?}", error): the name of the variant and, for SQLError, the
\* Debug text of the rusqlite error inside it
DebugText(r) == <<r.error, r.detail>>

\* ServerMessage::from(Result<_, AccountError>), from(Result<_, TransactionError>)
ServerMessageFrom(op, r) ==
    IF r.error = "Ok"
    THEN [variant |-> ResponseVariant(op), ok |-> TRUE,
          value |-> r.value, error_type |-> "", error_message |-> ""]
    ELSE [variant |-> ResponseVariant(op), ok |-> FALSE,
          value |-> <<>>, error_type |-> ErrorType(op),
          error_message |-> DebugText(r)]

ServerMessagePacket(v, message_id, message) ==
    [v |-> v, message_id |-> message_id, message |-> message]

\* uuids that no client was given as a message_id
OtherMessageId == "m0"

\* (mutant) ServerMessage::to_packet(), whose message_id is a new uuid
to_packet(m, msg) == ServerMessagePacket(ProtocolVersion, OtherMessageId, m)

\* ServerMessage::as_resp_for(msg)
as_resp_for(m, msg) == ServerMessagePacket(ProtocolVersion, msg.message_id, m)

\* ServerMessagePacket::to_json()
ServerMessagePacket_to_json(p) ==
    <<Key("v"), Num(p.v), Key("message_id"), Str(p.message_id), Key("message"),
      Key(p.message.variant)>>
    \o (IF p.message.ok
        THEN <<Key("Ok"), Val(p.message.value)>>
        ELSE <<Key("Err"), Key("error_type"), Str(p.message.error_type),
               Key("error_message"), Str(p.message.error_message)>>)

\* ServerMessagePacket::from_json()
ServerMessagePacket_from_json(text) ==
    IF /\ Len(text) >= 8
       /\ IsKey(text[1], "v") /\ IsNum(text[2])
       /\ IsKey(text[3], "message_id") /\ IsStr(text[4])
       /\ IsKey(text[5], "message") /\ text[6].t = "key"
       /\ \/ Len(text) = 8 /\ IsKey(text[7], "Ok") /\ text[8].t = "val"
          \/ /\ Len(text) = 11 /\ IsKey(text[7], "Err")
             /\ IsKey(text[8], "error_type") /\ IsStr(text[9])
             /\ IsKey(text[10], "error_message") /\ IsStr(text[11])
       /\ text[2].n = ProtocolVersion
    THEN Some(ServerMessagePacket(text[2].n, text[4].s,
            IF IsKey(text[7], "Ok")
            THEN [variant |-> text[6].s, ok |-> TRUE, value |-> text[8].v,
                  error_type |-> "", error_message |-> ""]
            ELSE [variant |-> text[6].s, ok |-> FALSE, value |-> <<>>,
                  error_type |-> text[9].s, error_message |-> text[11].s]))
    ELSE None


\* ---- bin/core.rs: socket_server and the handler of main() ----
\* the address a client bound its socket to: a path, as send_and_recv_msg
\* binds it, or an abstract name; and the address of a socket never bound
ClientAddress   == "/tmp/capycoin-client.1.0"
AbstractAddress == "@capycoin-client"
Unnamed         == ""
Addresses       == {ClientAddress, AbstractAddress, Unnamed}

\* the uuids that ClientMessagePacket::new() gave the clients
MessageIds == {"m1", "m2"}

\* SocketAddr::as_pathname()
as_pathname(address) ==
    IF address \in {Unnamed, AbstractAddress} THEN None ELSE Some(address)

\* (mutant) every sender is taken to have a path
as_pathnameAny(address) == Some(address)

\* a datagram: the sender's address and the bytes, which are UTF-8 text or
\* not; `packet` is the envelope its sender built, kept for the claims
Datagram(kind, from, utf8, text, packet) ==
    [kind |-> kind, from |-> from, utf8 |-> utf8, text |-> text, packet |-> packet]

\* send_and_recv_msg(): message.to_packet().to_json()
Request(msg, message_id, from) ==
    LET p == ClientMessagePacketNew(msg, message_id)
    IN Datagram("request", from, TRUE, ClientMessagePacket_to_json(p), p)

\* the same request from a client of the next protocol version
OtherVersion(msg, message_id, from) ==
    LET p == ClientMessagePacket(ProtocolVersion + 1, message_id, msg)
    IN Datagram("other version", from, TRUE, ClientMessagePacket_to_json(p), p)

\* a request whose text lost its end
CutShort(msg, message_id, from) ==
    LET p == ClientMessagePacketNew(msg, message_id)
        text == ClientMessagePacket_to_json(p)
    IN Datagram("cut short", from, TRUE, SubSeq(text, 1, Len(text) - 1), p)

\* bytes that are not UTF-8
Binary(from) == Datagram("binary", from, FALSE, <<>>, <<>>)

\* the handler of main() up to message_dispatch: from_utf8 and from_json.
\* Bytes that are not UTF-8 end the handler with Err(GeneralError), a text
\* that is no envelope ends it with Ok(None); the loop sends nothing in
\* either case.
Decoded(d) ==
    IF ~d.utf8 THEN None
    ELSE ClientMessagePacket_from_json(d.text)

\* the core is serving: main() has run on a fresh store
InitServe ==
    /\ accounts_table = TRUE
    /\ ledger_table = TRUE
    /\ accounts = <<create_seed_account>>
    /\ transactions = <<>>
    /\ tx = NoTx
    /\ pc = "idle"
    /\ call = NoCall
    /\ tx_funds = 0
    /\ receipt_timestamp = 0
    /\ result = NoResult
    /\ pre = NoStore
    /\ stmts = 0
    /\ saved = <<<<SeedAccountId, SeedFunds, SeedStamp>>>>
    /\ now = 0
    /\ server = "Serving"
    /\ datagram = NoDatagram
    /\ attempts = 0
    /\ sent = NoSend
    /\ running = TRUE
    /\ inbox = <<>>
    /\ arrived = <<>>
    /\ late = FALSE
    /\ raised = 0 - 1
    /\ NoClient

\* socket.recv_from() returns the datagram d and the handler decodes it
recv_from(d) ==
    /\ server = "Serving"
    /\ pc = "idle"
    /\ datagram' = d
    /\ attempts' = 0
    /\ sent' = NoSend
    /\ server' = IF Decoded(d).some THEN "Handling" ELSE "Serving"
    /\ UNCHANGED <<accounts_table, ledger_table, accounts, transactions, tx, pc, call,
                   tx_funds, receipt_timestamp, result, pre, stmts, saved, now, loop, cli>>

\* socket.recv_from() fails with an error that is no timeout: break
recv_fromFails ==
    /\ server = "Serving"
    /\ pc = "idle"
    /\ server' = "Terminated"
    /\ UNCHANGED <<accounts_table, ledger_table, accounts, transactions, tx, pc, call,
                   tx_funds, receipt_timestamp, result, pre, stmts, saved, now,
                   datagram, attempts, sent, loop, cli>>

\* message_dispatch(): the call that the variant of the request stands for
message_dispatch ==
    /\ server = "Handling"
    /\ pc = "idle"
    /\ LET message == Decoded(datagram).value.message IN
        \/ /\ message.type = "CreateNewAccount"
           /\ HasFresh(NewAccountIds, StoredAccountIds)
           /\ save_account(NewAccount(Fresh(NewAccountIds, StoredAccountIds), 0))
        \/ /\ message.type = "GetAccount"
           /\ load_account(message.account_id)
        \/ /\ message.type = "GetAccounts"
           /\ get_accounts
        \/ /\ message.type = "GetTransactions"
           /\ get_transactions(message.account_id, message.time_range_start,
                               message.time_range_end)
        \/ /\ message.type = "GetTransaction"
           /\ get_transaction(message.account_id, message.transaction_id)
        \/ /\ message.type = "CreateTransaction"
           /\ HasFresh(NewTxIds, StoredTxIds)
           /\ save_transaction(Transaction(Fresh(NewTxIds, StoredTxIds), message.sender_id,
                                           message.receiver_id, message.amount, 0))

\* The handler has the result of the call: as_resp_for(), to_json(), and
\* back in the loop one send_to() if the sender's address is a path, whose
\* failure is only logged.  The iteration is over.
send_toSteps ==
    /\ server = "Handling"
    /\ pc = "done"
    /\ LET message == Decoded(datagram).value
           resp == as_resp_for(ServerMessageFrom(call.op, result), message)
           resp_json == ServerMessagePacket_to_json(resp)
           client_addr == as_pathname(datagram.from)
       IN IF client_addr.some
          THEN /\ attempts' = attempts + 1
               /\ \E ok \in BOOLEAN :
                    sent' = [to |-> client_addr.value, bytes |-> resp_json, ok |-> ok]
          ELSE UNCHANGED <<attempts, sent>>
    /\ server' = "Serving"
    /\ pc' = "idle"
    /\ call' = NoCall
    /\ result' = NoResult
    /\ pre' = NoStore
    /\ stmts' = 0
    /\ tx_funds' = 0
    /\ receipt_timestamp' = 0
    /\ UNCHANGED <<accounts_table, ledger_table, accounts, transactions, tx, saved, now,
                   datagram, loop>>

\* the iteration's end where no client is modelled: nothing listens at the
\* sender's address, and the send succeeds or fails
send_to ==
    /\ send_toSteps
    /\ UNCHANGED cli

\* the requests the clients send: every variant, from every address
RequestsSent(message_id, from) ==
    \/ /\ HasFresh(NewAccountIds, StoredAccountIds)
       /\ recv_from(Request(CreateNewAccount, message_id, from))
    \/ \E id \in AccountIds : recv_from(Request(GetAccount(id), message_id, from))
    \/ recv_from(Request(GetAccounts, message_id, from))
    \/ \E id \in AccountIds :
         recv_from(Request(GetTransactions(id, SeedStamp, MaxClock), message_id, from))
    \/ \E id \in AccountIds, t \in TxIds :
         recv_from(Request(GetTransaction(id, t), message_id, from))
    \/ /\ HasFresh(NewTxIds, StoredTxIds)
       /\ \E s \in AccountIds, r \in AccountIds, a \in Amounts :
            recv_from(Request(CreateTransaction(s, r, a), message_id, from))

\* datagrams that are no request of this protocol version
OthersSent(message_id, from) ==
    \/ recv_from(OtherVersion(CreateNewAccount, message_id, from))
    \/ recv_from(CutShort(CreateTransaction(SeedAccountId, NewAccountIds[1], 1),
                          message_id, from))
    \/ recv_from(Binary(from))

NextServe ==
    \/ \E message_id \in MessageIds, from \in Addresses : RequestsSent(message_id, from)
    \/ \E message_id \in MessageIds, from \in Addresses : OthersSent(message_id, from)
    \/ recv_fromFails
    \/ message_dispatch
    \/ CheckSenderFunds
    \/ UpdateSender
    \/ UpdateReceiver
    \/ UpdateLedger
    \/ Commit
    \/ StatementFails
    \/ send_to

SpecServe == InitServe /\ [][NextServe]_vars

\* ---- bin/core.rs: socket_server, its flag and the socket's queue ----
\* datagrams a run sends to the core
MaxArrived == 3

\* (mutant) the socket hands out the newest datagram
DequeueNewest(q) == [d |-> q[Len(q)], rest |-> SubSeq(q, 1, Len(q) - 1)]

\* socket.recv_from() on a datagram socket: the oldest datagram of the queue
Dequeue(q) == [d |-> Head(q), rest |-> Tail(q)]

\* datagrams received so far
Received == Len(arrived) - Len(inbox)

\* requests of one variant among the datagrams sent
Variants(type) ==
    Cardinality({i \in 1..Len(arrived) :
                    /\ arrived[i].kind = "request"
                    /\ arrived[i].packet.message.type = type})

\* the datagrams the clients of the loop send: a new account, and transfers
\* in both directions between the seed account and the first new account
LoopDatagrams ==
    {Request(CreateNewAccount, "m1", ClientAddress), Binary(ClientAddress)}
    \cup {Request(CreateTransaction(SeedAccountId, NewAccountIds[1], a), "m1", ClientAddress) :
            a \in AmountsSent}
    \cup {Request(CreateTransaction(NewAccountIds[1], SeedAccountId, a), "m1", ClientAddress) :
            a \in AmountsSent}

\* a client's sock.send(): the datagram joins the socket's queue.  A run has
\* no more requests for new uuids than the model has uuids.
send(d) ==
    /\ server \in {"Serving", "Receiving", "Handling"}
    /\ Len(arrived) < MaxArrived
    /\ d.kind = "request" /\ d.packet.message.type = "CreateNewAccount"
         => Variants("CreateNewAccount") < Len(NewAccountIds)
    /\ d.kind = "request" /\ d.packet.message.type = "CreateTransaction"
         => Variants("CreateTransaction") < Len(NewTxIds)
    /\ inbox' = Append(inbox, d)
    /\ arrived' = Append(arrived, d)
    /\ UNCHANGED <<accounts_table, ledger_table, accounts, transactions, tx, pc, call,
                   tx_funds, receipt_timestamp, result, pre, stmts, saved, now,
                   server, datagram, attempts, sent, running, late, raised, cli>>

\* the handler given to ctrlc::set_handler: r.store(false, SeqCst)
ctrlc_handler ==
    /\ server \in {"Serving", "Receiving", "Handling"}
    /\ running
    /\ running' = FALSE
    /\ raised' = Len(arrived)
    /\ UNCHANGED <<accounts_table, ledger_table, accounts, transactions, tx, pc, call,
                   tx_funds, receipt_timestamp, result, pre, stmts, saved, now,
                   server, datagram, attempts, sent, inbox, arrived, late, cli>>

\* (mutant) the loop does not read the flag
LoopContinuesAlways == TRUE

\* while running.load(SeqCst)
LoopContinues == running

\* the top of the loop: the flag is read, and the loop is entered or left
while_running ==
    /\ server = "Serving"
    /\ pc = "idle"
    /\ server' = IF LoopContinues THEN "Receiving" ELSE "Draining"
    /\ UNCHANGED <<accounts_table, ledger_table, accounts, transactions, tx, pc, call,
                   tx_funds, receipt_timestamp, result, pre, stmts, saved, now,
                   datagram, attempts, sent, loop, cli>>

\* socket.recv_from() returns the oldest datagram and the handler decodes it
recv_fromQueue ==
    /\ server = "Receiving"
    /\ inbox # <<>>
    /\ datagram' = Dequeue(inbox).d
    /\ inbox' = Dequeue(inbox).rest
    /\ late' = (late \/ ~running)
    /\ attempts' = 0
    /\ sent' = NoSend
    /\ server' = IF Decoded(datagram').some THEN "Handling" ELSE "Serving"
    /\ UNCHANGED <<accounts_table, ledger_table, accounts, transactions, tx, pc, call,
                   tx_funds, receipt_timestamp, result, pre, stmts, saved, now,
                   running, arrived, raised, cli>>

\* (mutant) a receive that timed out is tried again inside the iteration
AfterTimeoutRetry == "Receiving"

\* WouldBlock | Interrupted | TimedOut => continue: the top of the loop
AfterTimeout == "Serving"

\* socket.recv_from() fails after the read timeout of one second with no
\* datagram, or is interrupted by a signal
recv_fromTimesOut ==
    /\ server = "Receiving"
    /\ server' = AfterTimeout
    /\ UNCHANGED <<accounts_table, ledger_table, accounts, transactions, tx, pc, call,
                   tx_funds, receipt_timestamp, result, pre, stmts, saved, now,
                   datagram, attempts, sent, loop, cli>>

\* socket.recv_from() fails with any other error: break
recv_fromBreaks ==
    /\ server = "Receiving"
    /\ server' = "Draining"
    /\ UNCHANGED <<accounts_table, ledger_table, accounts, transactions, tx, pc, call,
                   tx_funds, receipt_timestamp, result, pre, stmts, saved, now,
                   datagram, attempts, sent, loop, cli>>

\* after the loop: socket.shutdown(Both)?, and socket_server returns with
\* Ok(()) or with the error of the shutdown
socket_shutdown ==
    /\ server = "Draining"
    /\ server' = "Terminated"
    /\ UNCHANGED <<accounts_table, ledger_table, accounts, transactions, tx, pc, call,
                   tx_funds, receipt_timestamp, result, pre, stmts, saved, now,
                   datagram, attempts, sent, loop, cli>>

\* the steps of the thread that runs socket_server
LoopSteps ==
    \/ while_running
    \/ recv_fromQueue
    \/ recv_fromTimesOut
    \/ message_dispatch
    \/ CheckSenderFunds
    \/ UpdateSender
    \/ UpdateReceiver
    \/ UpdateLedger
    \/ Commit
    \/ send_to
    \/ socket_shutdown

NextLoop ==
    \/ Tick
    \/ \E d \in LoopDatagrams : send(d)
    \/ ctrlc_handler
    \/ recv_fromBreaks
    \/ LoopSteps

SpecLoop == InitServe /\ [][NextLoop]_vars

\* The thread of socket_server is scheduled as long as it has a step to
\* take, and every receive returns within its read timeout.
SpecLoopFair == SpecLoop /\ WF_vars(LoopSteps)

\* ---- ledger.rs under both of its callers: the core and a direct caller ----
\* the wall clock advances, also while a call runs
Elapse ==
    /\ pc # "down"
    /\ now < MaxClock
    /\ now' = now + 1
    /\ UNCHANGED <<accounts_table, ledger_table, accounts, transactions, tx, pc, call,
                   tx_funds, receipt_timestamp, result, pre, stmts, saved, srv>>

\* the pairs of sender and receiver tried: the seed account and the first
\* new account in both directions, and the seed account with itself
PairsTried ==
    {<<SeedAccountId, NewAccountIds[1]>>, <<NewAccountIds[1], SeedAccountId>>,
     <<SeedAccountId, SeedAccountId>>}

\* the requests the core is sent: a new account, a transfer
LedgerRequests ==
    \/ /\ StoredAccountIds = {SeedAccountId}
       /\ recv_from(Request(CreateNewAccount, "m1", ClientAddress))
    \/ /\ HasFresh(NewTxIds, StoredTxIds)
       /\ \E p \in PairsTried, a \in AmountsSent :
            recv_from(Request(CreateTransaction(p[1], p[2], a), "m1", ClientAddress))

\* a caller of the library (a test, a tool) on the connection of a process
\* that is not handling a request: a Transaction value of its own making,
\* with any timestamp, any fee and a new or a used transaction_id
DirectCall ==
    /\ server = "Serving"
    /\ \E id \in TxIdsTried, stamp \in TimesTried, p \in PairsTried, f \in Fees :
         save_transaction(TransactionAt(Transaction(id, p[1], p[2], 1, f), stamp))

\* the direct caller has taken the result
DirectReturn ==
    /\ server = "Serving"
    /\ Continue

NextLedger ==
    \/ Elapse
    \/ LedgerRequests
    \/ message_dispatch
    \/ DirectCall
    \/ CheckSenderFunds
    \/ UpdateSender
    \/ UpdateReceiver
    \/ UpdateLedger
    \/ Commit
    \/ StatementFails
    \/ DirectReturn
    \/ send_to

SpecLedger == InitServe /\ [][NextLedger]_vars

\* ---- the core stopped and started again on its store ----
\* the store of a core that was never started
InitRestart ==
    /\ Init
    /\ pc = "down"

\* The process of the core ends (interrupt, kill, panic, power loss) while
\* it serves or handles a request: its memory is gone, an open transaction
\* was never committed, the store file stays.
ProcessEnds ==
    /\ server \in {"Serving", "Handling"}
    /\ server' = "Terminated"
    /\ pc' = "down"
    /\ tx' = NoTx
    /\ call' = NoCall
    /\ result' = NoResult
    /\ pre' = NoStore
    /\ tx_funds' = 0
    /\ receipt_timestamp' = 0
    /\ UNCHANGED <<accounts_table, ledger_table, accounts, transactions, stmts, saved, now,
                   datagram, attempts, sent, loop, cli>>

\* (mutant) the row of the seed account is written anew at every start
SeedReplaced(rows, fails) ==
    IF fails THEN rows
    ELSE IF AccountRows(rows, SeedAccountId) # {}
    THEN UpdateFunds(rows, SeedAccountId, SeedFunds)
    ELSE Append(rows, create_seed_account)

\* what the store holds after main()'s save_account(create_seed_account()):
\* the INSERT fails on the primary key when the row exists, and fails or
\* not in a store that fails; main() only prints the error
SeedSaved(rows, fails) ==
    IF AccountRows(rows, SeedAccountId) # {} \/ fails
    THEN rows
    ELSE Append(rows, create_seed_account)

\* main() up to the loop of socket_server: the tables are created if they
\* do not exist, the seed account is saved, the socket is bound
mainServes ==
    /\ server \in {"Off", "Terminated"}
    /\ pc = "down"
    /\ accounts_table' = TRUE
    /\ ledger_table' = TRUE
    /\ \E fails \in BOOLEAN :
         /\ accounts' = SeedSaved(accounts, fails)
         /\ saved' = IF accounts' # accounts
                     THEN Append(saved, <<SeedAccountId, SeedFunds, SeedStamp>>)
                     ELSE saved
    /\ pc' = "idle"
    /\ call' = NoCall
    /\ result' = NoResult
    /\ pre' = NoStore
    /\ stmts' = 0
    /\ tx_funds' = 0
    /\ receipt_timestamp' = 0
    /\ server' = "Serving"
    /\ datagram' = NoDatagram
    /\ attempts' = 0
    /\ sent' = NoSend
    /\ UNCHANGED <<transactions, tx, now, loop, cli>>

NextRestart ==
    \/ mainServes
    \/ LedgerRequests
    \/ message_dispatch
    \/ CheckSenderFunds
    \/ UpdateSender
    \/ UpdateReceiver
    \/ UpdateLedger
    \/ Commit
    \/ StatementFails
    \/ send_to
    \/ ProcessEnds

SpecRestart == InitRestart /\ [][NextRestart]_vars

\* ---- client_util.rs: send_and_recv_msg ----
\* milliseconds the clock of a client process advances in a run
MaxMillis == 1

\* calls of send_and_recv_msg in a run
MaxCalls == 3

\* process::id() of the client process
Pid == 7

\* make_client_sock_address(): format!("/tmp/capycoin-client.{}.{}", pid, ts)
make_client_sock_address(pid, ts) == <<"/tmp/capycoin-client", pid, ts>>

\* the uuid ClientMessagePacket::new() gives the request of thread c
MessageIdOf(c) == IF c = "c1" THEN "m1" ELSE "m2"

\* the payloads the core answers with
Payloads ==
    {ServerMessageFrom("save_account", Ok(Account(NewAccountIds[1], 0, 0))),
     ServerMessageFrom("save_transaction", Err("SenderAccountNotEnoughFunds"))}

\* a datagram that arrives at the client's socket
Reply(kind, p) == Datagram(kind, "", TRUE, ServerMessagePacket_to_json(p), p)

\* the datagrams that can arrive at the socket of a call whose request has
\* the id message_id: the core's response to it, a response to another
\* request, a response of the next protocol version, a response that lost
\* its end, and bytes that are not UTF-8
Replies(message_id) ==
    {Reply("reply", ServerMessagePacket(ProtocolVersion, message_id, m)) : m \in Payloads}
    \cup {Reply("other id", ServerMessagePacket(ProtocolVersion, id, m)) :
            id \in (MessageIds \cup {OtherMessageId}) \ {message_id}, m \in Payloads}
    \cup {Reply("other version", ServerMessagePacket(ProtocolVersion + 1, message_id, m)) :
            m \in Payloads}
    \cup {LET p == ServerMessagePacket(ProtocolVersion, message_id, m)
              text == ServerMessagePacket_to_json(p)
          IN Datagram("cut short", "", TRUE, SubSeq(text, 1, Len(text) - 1), p) :
            m \in Payloads}
    \cup {Datagram("binary", "", FALSE, <<>>, <<>>)}

\* send_and_recv_msg returns r
client_return(c, r) ==
    client' = [client EXCEPT ![c].pc = "returned", ![c].result = r]

\* a thread enters send_and_recv_msg: make_client_sock_address() and
\* UnixDatagram::bind(), which creates the socket file and fails if the
\* file exists
bind(c) ==
    /\ client[c].pc = "idle"
    /\ LET client_sock_address == make_client_sock_address(Pid, millis) IN
        /\ derived' = Append(derived, client_sock_address)
        /\ IF client_sock_address \in files
           THEN /\ client' = [client EXCEPT ![c] =
                                 [NotCalling EXCEPT !.pc = "returned",
                                                    !.address = client_sock_address]]
                /\ files' = files
           ELSE /\ client' = [client EXCEPT ![c] =
                                 [NotCalling EXCEPT !.pc = "bound", !.bound = TRUE,
                                                    !.address = client_sock_address]]
                /\ files' = files \cup {client_sock_address}
    /\ UNCHANGED <<accounts_table, ledger_table, accounts, transactions, tx, pc, call,
                   tx_funds, receipt_timestamp, result, pre, stmts, saved, now,
                   server, datagram, attempts, sent, loop, millis, gw>>

\* a run has MaxCalls calls
client_bind(c) ==
    /\ Len(derived) < MaxCalls
    /\ bind(c)

\* sock.connect(server_sock_address): Err => return None
client_connect(c) ==
    /\ client[c].pc = "bound"
    /\ \E ok \in BOOLEAN :
         IF ok THEN client' = [client EXCEPT ![c].pc = "connected"]
         ELSE client_return(c, None)
    /\ UNCHANGED <<accounts_table, ledger_table, accounts, transactions, tx, pc, call,
                   tx_funds, receipt_timestamp, result, pre, stmts, saved, now,
                   server, datagram, attempts, sent, loop, files, millis, derived, gw>>

\* message.to_packet(), to_json(), sock.send(..).unwrap(): a send that
\* fails panics
client_send(c) ==
    /\ client[c].pc = "connected"
    /\ \E ok \in BOOLEAN :
         client' = [client EXCEPT ![c].pc = IF ok THEN "sent" ELSE "panicked",
                                  ![c].message_id = MessageIdOf(c),
                                  ![c].sends = @ + 1]
    /\ UNCHANGED <<accounts_table, ledger_table, accounts, transactions, tx, pc, call,
                   tx_funds, receipt_timestamp, result, pre, stmts, saved, now,
                   server, datagram, attempts, sent, loop, files, millis, derived, gw>>

\* sock.recv() returns a datagram
client_recv(c) ==
    /\ client[c].pc = "sent"
    /\ \E reply \in Replies(client[c].message_id) :
         client' = [client EXCEPT ![c].pc = "received", ![c].reply = reply,
                                  ![c].recvs = @ + 1]
    /\ UNCHANGED <<accounts_table, ledger_table, accounts, transactions, tx, pc, call,
                   tx_funds, receipt_timestamp, result, pre, stmts, saved, now,
                   server, datagram, attempts, sent, loop, files, millis, derived, gw>>

\* sock.recv() fails, with no datagram within the read timeout of one
\* second or with another error: return None
client_recvTimesOut(c) ==
    /\ client[c].pc = "sent"
    /\ client' = [client EXCEPT ![c].pc = "returned", ![c].result = None,
                                ![c].recvs = @ + 1]
    /\ UNCHANGED <<accounts_table, ledger_table, accounts, transactions, tx, pc, call,
                   tx_funds, receipt_timestamp, result, pre, stmts, saved, now,
                   server, datagram, attempts, sent, loop, files, millis, derived, gw>>

\* (mutant) the message_id of the reply is not compared
MatchesAny(resp, message_id) == TRUE

\* resp.message_id != message_packet.message_id => return None
Matches(resp, message_id) == resp.message_id = message_id

\* what send_and_recv_msg returns for the datagram it received
client_response(reply, message_id) ==
    LET resp == IF ~reply.utf8 THEN None
                ELSE ServerMessagePacket_from_json(reply.text)
    IN IF ~resp.some THEN None
       ELSE IF ~Matches(resp.value, message_id) THEN None
       ELSE Some(resp.value.message)

\* the datagram is decoded, the socket is shut down, the socket file is
\* removed, and the call returns the response or None
client_finish(c) ==
    /\ client[c].pc = "received"
    /\ files' = files \ {client[c].address}
    /\ client_return(c, client_response(client[c].reply, client[c].message_id))
    /\ UNCHANGED <<accounts_table, ledger_table, accounts, transactions, tx, pc, call,
                   tx_funds, receipt_timestamp, result, pre, stmts, saved, now,
                   server, datagram, attempts, sent, loop, millis, derived, gw>>

\* the thread is done with what the call returned
client_idle(c) ==
    /\ client[c].pc = "returned"
    /\ client' = [client EXCEPT ![c] = NotCalling]
    /\ UNCHANGED <<accounts_table, ledger_table, accounts, transactions, tx, pc, call,
                   tx_funds, receipt_timestamp, result, pre, stmts, saved, now,
                   server, datagram, attempts, sent, loop, files, millis, derived, gw>>

\* a millisecond passes in the client process
client_tick ==
    /\ millis < MaxMillis
    /\ millis' = millis + 1
    /\ UNCHANGED <<accounts_table, ledger_table, accounts, transactions, tx, pc, call,
                   tx_funds, receipt_timestamp, result, pre, stmts, saved, now,
                   server, datagram, attempts, sent, loop, client, files, derived, gw>>

\* the steps of a thread inside send_and_recv_msg
CallSteps(c) ==
    \/ client_connect(c)
    \/ client_send(c)
    \/ client_recv(c)
    \/ client_recvTimesOut(c)
    \/ client_finish(c)

NextClient ==
    \/ \E c \in Callers : client_bind(c)
    \/ \E c \in Callers : CallSteps(c)
    \/ \E c \in Callers : client_idle(c)
    \/ client_tick

SpecClient == InitServe /\ [][NextClient]_vars

\* A thread inside send_and_recv_msg is scheduled, and its receive returns
\* within the read timeout.
SpecClientFair == SpecClient /\ \A c \in Callers : WF_vars(CallSteps(c))

\* ---- the calls of the clients and the core on one machine ----
\* format!("/tmp/capycoin-client.{}.{}", pid, ts): the path as text
PathName(address) ==
    address[1] \o "." \o ToString(address[2]) \o "." \o ToString(address[3])

\* the uuids ClientMessagePacket::new() gives the requests, one for each
CallMessageIds == <<"m1", "m2">>

\* the message ids of the requests sent so far
SentMessageIds == {arrived[i].packet.message_id : i \in 1..Len(arrived)}

\* the requests the callers make: a new account, and a transfer in each
\* direction between the seed account and the first new account
CallRequests ==
    {CreateNewAccount,
     CreateTransaction(SeedAccountId, NewAccountIds[1], 1),
     CreateTransaction(NewAccountIds[1], SeedAccountId, MaxFunds)}

\* the thread has a socket that is bound and not yet shut down
Listening(c) == client[c].pc \in {"bound", "connected", "sent", "received"}

\* the threads whose socket is bound to the path
Listeners(path) == {c \in Callers : Listening(c) /\ PathName(client[c].address) = path}

\* message.to_packet(), to_json(), sock.send(..).unwrap(): the request joins
\* the queue of the core's socket; a send that fails panics
sendRequest(c, msg) ==
    /\ client[c].pc = "connected"
    /\ HasFresh(CallMessageIds, SentMessageIds)
    /\ \E ok \in BOOLEAN :
         /\ msg.type = "CreateNewAccount" => Variants("CreateNewAccount") < Len(NewAccountIds)
         /\ msg.type = "CreateTransaction" => Variants("CreateTransaction") < Len(NewTxIds)
         /\ LET message_id == Fresh(CallMessageIds, SentMessageIds)
                d == Request(msg, message_id, PathName(client[c].address))
            IN IF ok /\ server \in {"Serving", "Receiving", "Handling"}
               THEN /\ inbox' = Append(inbox, d)
                    /\ arrived' = Append(arrived, d)
                    /\ client' = [client EXCEPT ![c].pc = "sent",
                                                ![c].message_id = message_id,
                                                ![c].sends = @ + 1]
               ELSE /\ client' = [client EXCEPT ![c].pc = "panicked",
                                                ![c].message_id = message_id,
                                                ![c].sends = @ + 1]
                    /\ UNCHANGED <<inbox, arrived>>
    /\ UNCHANGED <<accounts_table, ledger_table, accounts, transactions, tx, pc, call,
                   tx_funds, receipt_timestamp, result, pre, stmts, saved, now,
                   server, datagram, attempts, sent, running, late, raised,
                   files, millis, derived, gw>>

\* a caller sends one of the requests
client_sendRequest(c) == \E msg \in CallRequests : sendRequest(c, msg)

\* the iteration's end with the clients on the machine: send_to() succeeds
\* only if a socket is bound to the path, and then the datagram is in the
\* queue of that socket
send_toSocket ==
    /\ send_toSteps
    /\ IF attempts' = attempts
       THEN client' = client
       ELSE /\ sent'.ok => Listeners(sent'.to) # {}
            /\ client' =
                 [c \in Callers |->
                    IF sent'.ok /\ c \in Listeners(sent'.to)
                    THEN [client[c] EXCEPT !.queue =
                            Append(@, Datagram("reply", "", TRUE, sent'.bytes,
                                     ServerMessagePacket_from_json(sent'.bytes).value))]
                    ELSE client[c]]
    /\ UNCHANGED <<files, millis, derived, gw>>

\* sock.recv() returns the oldest datagram of the socket's queue
client_recvQueue(c) ==
    /\ client[c].pc = "sent"
    /\ client[c].queue # <<>>
    /\ client' = [client EXCEPT ![c].pc = "received",
                                ![c].reply = Dequeue(client[c].queue).d,
                                ![c].queue = Dequeue(client[c].queue).rest,
                                ![c].recvs = @ + 1]
    /\ UNCHANGED <<accounts_table, ledger_table, accounts, transactions, tx, pc, call,
                   tx_funds, receipt_timestamp, result, pre, stmts, saved, now,
                   server, datagram, attempts, sent, loop, files, millis, derived, gw>>

\* The socket file a call left behind (a return without remove_file) is
\* removed from /tmp by its owner or by the system; no socket is bound to it.
remove_file(address) ==
    /\ address \in files
    /\ \A c \in Callers : Listening(c) => client[c].address # address
    /\ files' = files \ {address}
    /\ UNCHANGED <<accounts_table, ledger_table, accounts, transactions, tx, pc, call,
                   tx_funds, receipt_timestamp, result, pre, stmts, saved, now,
                   server, datagram, attempts, sent, loop, client, millis, derived, gw>>

\* a run has as many calls as the model has message ids
client_bindCall(c) ==
    /\ Len(derived) < Len(CallMessageIds)
    /\ bind(c)

\* the steps of a thread inside send_and_recv_msg, the core serving
CallStepsServed(c) ==
    \/ client_connect(c)
    \/ client_sendRequest(c)
    \/ client_recvQueue(c)
    \/ client_recvTimesOut(c)
    \/ client_finish(c)

NextCalls ==
    \/ \E c \in Callers : client_bindCall(c)
    \/ \E c \in Callers : CallStepsServed(c)
    \/ \E c \in Callers : client_idle(c)
    \/ client_tick
    \/ \E address \in files : remove_file(address)
    \/ while_running
    \/ recv_fromQueue
    \/ recv_fromTimesOut
    \/ message_dispatch
    \/ CheckSenderFunds
    \/ UpdateSender
    \/ UpdateReceiver
    \/ UpdateLedger
    \/ Commit
    \/ StatementFails
    \/ send_toSocket

SpecCalls == InitServe /\ [][NextCalls]_vars

\* ---- bin/client_gateway.rs and auth.rs: the routes of the gateway ----
\* Token::new(): the tokens the gateway issues, one for each
NewTokens == <<"k1", "k2">>

\* create_token(): Duration::days(30), the clock counting days
TokenDays == 30

\* the tokens of the rows of `auth`
IssuedTokens == {auth[i].token : i \in 1..Len(auth)}

\* the Authorization headers of the requests: none, and Bearer with a token
\* the gateway has issued, with a token of the right length it has not
\* issued, and with a token of another length
Headers ==
    {[scheme |-> "none", token |-> ""]}
    \cup {[scheme |-> "Bearer", token |-> t] : t \in IssuedTokens \cup {"kx", "short"}}

\* the account ids in the paths of the requests, one of them no uuid
PathTexts == {NewAccountIds[1], SeedAccountId, "zz"}

Routes ==
    {"create_account", "get_account", "get_transactions", "create_transaction",
     "get_transaction"}

\* bearer_token(): the token of a header `Authorization: Bearer <token>`
bearer_token(header) ==
    IF header.scheme = "Bearer" THEN Some(header.token) ELSE None

\* Uuid::parse_str()
parse_str(text) == IF text = "zz" THEN None ELSE Some(text)

\* Token::from_hex_string(): 256 hexadecimal digits
from_hex_string(token_str) ==
    IF token_str = "short" THEN Err("TokenLengthError") ELSE Ok(token_str)

\* the rows SELECT token_hash, expiry FROM auth WHERE account_id = (?) gives
AuthRows(rows, account_id) == {i \in 1..Len(rows) : rows[i].account_id = account_id}

\* validate_token(): the first row of the account whose hash the token
\* verifies against decides
validate_token(rows, token_str, account_id, time) ==
    IF from_hex_string(token_str).error # "Ok" THEN from_hex_string(token_str)
    ELSE LET valid == {i \in AuthRows(rows, account_id) : rows[i].token = token_str}
         IN IF valid # {}
            THEN LET first == CHOOSE i \in valid : \A j \in valid : i <= j
                 IN IF time > rows[first].expiry THEN Err("TokenExpired") ELSE Ok(TRUE)
            ELSE IF AuthRows(rows, account_id) = {} THEN Err("TokenDoesNotExist")
            ELSE Ok(FALSE)

\* (mutant) Ok(false) is taken for a valid token
validate_token_responseLenient(header, account_id, opens) ==
    IF ~bearer_token(header).some THEN Some(401)
    ELSE IF ~opens THEN Some(500)
    ELSE LET r == validate_token(auth, bearer_token(header).value, account_id, now)
         IN IF r.error # "Ok" THEN Some(401) ELSE None

\* validate_token_response(): the response that refuses the request, or
\* None when the token is valid; `opens` is Connection::open("auth.db3")
validate_token_response(header, account_id, opens) ==
    IF ~bearer_token(header).some THEN Some(401)
    ELSE IF ~opens THEN Some(500)
    ELSE LET r == validate_token(auth, bearer_token(header).value, account_id, now)
         IN IF r.error # "Ok" THEN Some(401)
            ELSE IF r.value = FALSE THEN Some(401)
            ELSE None

\* the variant a handler takes for the answer to its request
GatewayVariant(route) ==
    CASE route = "create_account" -> "CreateNewAccountResponse"
      [] route = "get_account" -> "GetAccountResponse"
      [] route = "get_transactions" -> "GetTransactionsResponse"
      [] route = "get_transaction" -> "GetTransactionResponse"
      [] route = "create_transaction" -> "CreateTransactionResponse"

\* the request a handler gives send_and_recv_msg
GatewayMessage(route, account_id, receiver) ==
    CASE route = "create_account" -> CreateNewAccount
      [] route = "get_account" -> GetAccount(account_id)
      [] route = "get_transactions" -> GetTransactions(account_id, SeedStamp, MaxClock)
      [] route = "get_transaction" -> GetTransaction(account_id, NewTxIds[1])
      [] route = "create_transaction" -> CreateTransaction(account_id, receiver, 1)

\* A handler up to its call of send_and_recv_msg: the status of the response
\* it returns before, or 0.  `wellformed` stands for the rest of the
\* request: the transaction id of the path, the dates of the query, the body.
HandlerRefuses(route, text, header, wellformed, opens) ==
    IF route = "create_account"
    THEN IF bearer_token(header).some THEN 400 ELSE 0
    ELSE IF ~parse_str(text).some THEN 400
    ELSE IF route = "get_transaction" /\ ~wellformed THEN 400
    ELSE IF validate_token_response(header, parse_str(text).value, opens).some
    THEN validate_token_response(header, parse_str(text).value, opens).value
    ELSE IF route \in {"get_transactions", "create_transaction"} /\ ~wellformed THEN 400
    ELSE 0

\* a thread whose handler has returned a response of this status
Responded(status) == [NoRequest EXCEPT !.state = "responded", !.status = status]

\* the rest of a request: the transaction id of the path, the dates of the
\* query and the body are well formed or not, and the auth store opens or not
Rests == {[wellformed |-> TRUE, opens |-> TRUE], [wellformed |-> FALSE, opens |-> TRUE],
          [wellformed |-> TRUE, opens |-> FALSE]}

\* the account a transfer of the request's body names as receiver
ReceiverTried(account_id) ==
    IF account_id = SeedAccountId THEN NewAccountIds[1] ELSE SeedAccountId

\* a thread of the gateway takes a request and runs its handler up to the
\* call of send_and_recv_msg, or to the response that refuses the request
gateway_handler(c) ==
    /\ http[c].state \in {"none", "responded"}
    /\ client[c].pc = "idle"
    /\ \E route \in Routes, text \in PathTexts, header \in Headers, rest \in Rests :
         LET status == HandlerRefuses(route, text, header, rest.wellformed, rest.opens)
             path == IF route # "create_account" /\ parse_str(text).some
                     THEN parse_str(text).value ELSE ""
         IN http' = [http EXCEPT ![c] =
                IF status = 0
                THEN [state |-> "calling", route |-> route, path |-> path,
                      header |-> header, at |-> now,
                      message |-> GatewayMessage(route, path, ReceiverTried(path)),
                      status |-> 0]
                ELSE Responded(status)]
    /\ UNCHANGED <<accounts_table, ledger_table, accounts, transactions, tx, pc, call,
                   tx_funds, receipt_timestamp, result, pre, stmts, saved, now,
                   server, datagram, attempts, sent, loop, client, files, millis, derived,
                   auth>>

\* the handler calls send_and_recv_msg
gateway_bind(c) ==
    /\ http[c].state = "calling"
    /\ Len(derived) < Len(CallMessageIds)
    /\ bind(c)

\* send_and_recv_msg sends the request the handler gave it
gateway_send(c) ==
    /\ http[c].state = "calling"
    /\ sendRequest(c, http[c].message)

\* the call has returned: the handler makes its response; create_account
\* opens the auth store and creates the token of the new account
gateway_respond(c) ==
    /\ http[c].state = "calling"
    /\ client[c].pc = "returned"
    /\ LET r == client[c].result
           created == /\ http[c].route = "create_account"
                      /\ r.some
                      /\ r.value.variant = "CreateNewAccountResponse"
                      /\ r.value.ok
           answered == /\ r.some
                       /\ r.value.variant = GatewayVariant(http[c].route)
                       /\ r.value.ok
       IN IF created
          THEN \E stored \in BOOLEAN :
                 IF stored /\ HasFresh(NewTokens, IssuedTokens)
                 THEN /\ auth' = Append(auth, [token |-> Fresh(NewTokens, IssuedTokens),
                                               account_id |-> r.value.value.account_id,
                                               expiry |-> now + TokenDays])
                      /\ http' = [http EXCEPT ![c] = Responded(200)]
                 ELSE /\ auth' = auth
                      /\ http' = [http EXCEPT ![c] = Responded(500)]
          ELSE /\ auth' = auth
               /\ http' = [http EXCEPT ![c] = Responded(IF answered THEN 200 ELSE 500)]
    /\ client' = [client EXCEPT ![c] = NotCalling]
    /\ UNCHANGED <<accounts_table, ledger_table, accounts, transactions, tx, pc, call,
                   tx_funds, receipt_timestamp, result, pre, stmts, saved, now,
                   server, datagram, attempts, sent, loop, files, millis, derived>>

\* the days pass in which a token expires
TokensExpire ==
    /\ now <= MaxClock
    /\ now' = now + TokenDays + 1
    /\ UNCHANGED <<accounts_table, ledger_table, accounts, transactions, tx, pc, call,
                   tx_funds, receipt_timestamp, result, pre, stmts, saved, srv>>

\* the steps of a thread of the gateway inside a handler
GatewaySteps(c) ==
    \/ gateway_bind(c)
    \/ client_connect(c)
    \/ gateway_send(c)
    \/ client_recv(c)
    \/ client_recvTimesOut(c)
    \/ client_finish(c)
    \/ gateway_respond(c)

NextGateway ==
    \/ \E c \in Callers : gateway_handler(c)
    \/ \E c \in Callers : GatewaySteps(c)
    \/ TokensExpire

SpecGateway == InitServe /\ [][NextGateway]_vars

(***************************************************************************)
(* The claims.                                                             *)
(***************************************************************************)

\* the call that has just returned
Returned(op) == pc = "done" /\ call.op = op
T == call.transaction

Stored(rows, id) == AccountRows(rows, id) # {}

\* every account a save_account or main() has saved
SavedAccounts == {saved[i] : i \in 1..Len(saved)}

\* The store executed every statement the call gave it: the tables the call
\* touches exist, the transaction id is new to the ledger and no statement
\* failed with an I/O error.
NoIOError == result.detail # "disk I/O error"
StoreServes ==
    /\ accounts_table
    /\ ledger_table
    /\ TransactionRows(pre.transactions, T.transaction_id) = {}
    /\ NoIOError

ValidationErrors ==
    {"AmountIsZero", "AmountIsNegative", "FeeIsNegative", "SenderReceiverAreTheSame"}

\* `after` is `before` with the transfer t applied: the sender has exactly
\* t.amount less, the receiver exactly t.amount more, every other account row
\* is as it was, and the ledger has one row more, carrying t's sender,
\* receiver and amount.
Transferred(before, after, t) ==
    /\ Len(after.accounts) = Len(before.accounts)
    /\ \A i \in 1..Len(after.accounts) :
         LET was == before.accounts[i] IN
         /\ after.accounts[i].account_id = was.account_id
         /\ after.accounts[i].created = was.created
         /\ after.accounts[i].funds =
              IF was.account_id = t.sender_account_id THEN was.funds - t.amount
              ELSE IF was.account_id = t.receiver_account_id THEN was.funds + t.amount
              ELSE was.funds
    /\ Len(after.transactions) = Len(before.transactions) + 1
    /\ SubSeq(after.transactions, 1, Len(before.transactions)) = before.transactions
    /\ LET row == after.transactions[Len(after.transactions)] IN
         /\ row.transaction_id = t.transaction_id
         /\ row.sender_account_id = t.sender_account_id
         /\ row.receiver_account_id = t.receiver_account_id
         /\ row.amount = t.amount

\* C1: a transfer with amount > 0, fee = 0, sender # receiver, both accounts
\* stored and sender funds >= amount, on a store that executes its statements,
\* succeeds; afterwards the sender has exactly `amount` less, the receiver
\* exactly `amount` more, every other account is unchanged, and exactly one
\* new transaction row exists, carrying that sender, receiver and amount.
C1_TransferMovesFunds ==
    (/\ Returned("save_transaction")
     /\ T.amount > 0 /\ T.fee = 0
     /\ T.sender_account_id # T.receiver_account_id
     /\ Stored(pre.accounts, T.sender_account_id)
     /\ Stored(pre.accounts, T.receiver_account_id)
     /\ SelectFunds(pre.accounts, T.sender_account_id) >= T.amount
     /\ StoreServes)
    => /\ result.error = "Ok"
       /\ Transferred(pre, Store, T)

\* a successful partial transfer with a third account standing by
C1_Witness ==
    /\ Returned("save_transaction")
    /\ result.error = "Ok"
    /\ Len(accounts) = 3
    /\ T.amount = 1
    /\ SelectFunds(pre.accounts, T.sender_account_id) > T.amount

\* C2: in every reachable state every stored account has funds >= 0.
C2_FundsNeverNegative ==
    \A i \in 1..Len(accounts) : accounts[i].funds >= 0

\* a transfer has taken the sender's last funds, and a later request was
\* refused for want of funds
C2_Witness ==
    /\ Returned("save_transaction")
    /\ result.error = "SenderAccountNotEnoughFunds"
    /\ Len(transactions) >= 1
    /\ SelectFunds(accounts, T.sender_account_id) = 0

\* C3: when save_transaction returns an error, the accounts and the ledger
\* are what they were when it was called; so also when the receiver is
\* missing and the sender's debit had been written inside the transaction.
C3_ErrorLeavesStore ==
    (Returned("save_transaction") /\ result.error # "Ok") => Store = pre

\* ReceiverAccountDoesNotExist, returned by the fourth statement of the call
\* (BEGIN, SELECT, the sender's UPDATE, the receiver's UPDATE)
C3_Witness ==
    /\ Returned("save_transaction")
    /\ result.error = "ReceiverAccountDoesNotExist"
    /\ stmts = 4
    /\ SelectFunds(accounts, T.sender_account_id) >= T.amount

\* C4: for a transfer that passes validation, on a store that executes its
\* statements: sender not stored gives SenderAccountDoesNotExist; else sender
\* funds < amount gives SenderAccountNotEnoughFunds, receiver stored or not;
\* else receiver not stored gives ReceiverAccountDoesNotExist.
C4_StateErrorOrder ==
    (/\ Returned("save_transaction")
     /\ T.amount > 0 /\ T.fee >= 0
     /\ T.sender_account_id # T.receiver_account_id
     /\ accounts_table /\ NoIOError)
    => LET s == T.sender_account_id
           r == T.receiver_account_id
       IN IF ~Stored(pre.accounts, s)
          THEN result.error = "SenderAccountDoesNotExist"
          ELSE IF SelectFunds(pre.accounts, s) < T.amount
          THEN result.error = "SenderAccountNotEnoughFunds"
          ELSE IF ~Stored(pre.accounts, r)
          THEN result.error = "ReceiverAccountDoesNotExist"
          ELSE result.error \in {"Ok", "SQLError"}

\* not enough funds is reported although the receiver does not exist either
C4_Witness ==
    /\ Returned("save_transaction")
    /\ result.error = "SenderAccountNotEnoughFunds"
    /\ ~Stored(accounts, T.receiver_account_id)

InTransfer == {"select", "debit", "credit", "insert", "commit"}

RECURSIVE LedgerDelta(_, _)
\* what the ledger rows say the account id gained
LedgerDelta(rows, id) ==
    IF rows = <<>> THEN 0
    ELSE LET r == Head(rows) IN
         (IF r.receiver_account_id = id THEN r.amount ELSE 0)
         - (IF r.sender_account_id = id THEN r.amount + r.fee ELSE 0)
         + LedgerDelta(Tail(rows), id)

\* C6: in every reachable state every account ever saved is stored, once,
\* and its funds are the funds it was saved with, plus the amounts of the
\* persisted transactions it received, minus the amounts (plus fees) of the
\* persisted transactions it sent.
C6_LedgerAgreesWithBalances ==
    /\ \A p \in SavedAccounts :
         /\ Cardinality(AccountRows(accounts, p[1])) = 1
         /\ SelectFunds(accounts, p[1]) = p[2] + LedgerDelta(transactions, p[1])
    /\ \A i \in 1..Len(accounts) : \E p \in SavedAccounts : p[1] = accounts[i].account_id

\* two persisted transactions, and an account that sent one and received one
C6_Witness ==
    /\ Len(transactions) = 2
    /\ \E i, j \in 1..2 :
         /\ i # j
         /\ transactions[i].sender_account_id = transactions[j].receiver_account_id

\* the first sanity check, in the order of the claim, that t fails
FirstFailing(t) ==
    IF t.amount = 0 THEN "AmountIsZero"
    ELSE IF t.amount < 0 THEN "AmountIsNegative"
    ELSE IF t.fee < 0 THEN "FeeIsNegative"
    ELSE IF t.sender_account_id = t.receiver_account_id THEN "SenderReceiverAreTheSame"
    ELSE "none"

\* C7: save_transaction checks amount == 0, amount < 0, fee < 0 and
\* sender == receiver in this order and returns the first that fails, having
\* issued no statement to the store and leaving it as it was, whatever the
\* balances and whether or not the tables exist; a transfer that fails none
\* of them gets no validation error.
C7_ValidationFirst ==
    /\ Returned("save_transaction") =>
         IF FirstFailing(T) # "none"
         THEN result.error = FirstFailing(T) /\ stmts = 0 /\ Store = pre
         ELSE result.error \notin ValidationErrors
    /\ (pc = "down" /\ call.op = "save_transaction") => FirstFailing(T) = "none"

\* AmountIsZero for a transfer that fails all of the checks it can, on a
\* store without tables
C7_Witness ==
    /\ Returned("save_transaction")
    /\ ~accounts_table /\ ~ledger_table
    /\ T.amount = 0 /\ T.fee < 0
    /\ T.sender_account_id = T.receiver_account_id
    /\ result.error = "AmountIsZero"

\* C8, as claimed: a transfer whose sender is its receiver always fails with
\* SenderReceiverAreTheSame, for every amount, fee and store state.
C8_SelfTransferAlwaysSame ==
    (Returned("save_transaction") /\ T.sender_account_id = T.receiver_account_id)
    => result.error = "SenderReceiverAreTheSame"

\* C8, amended: a transfer whose sender is its receiver always fails and
\* changes nothing; it fails with SenderReceiverAreTheSame when amount > 0 and
\* fee >= 0, and with the error of the earlier check (AmountIsZero,
\* AmountIsNegative, FeeIsNegative) otherwise, for every store state.
C8_SelfTransferFails ==
    /\ (Returned("save_transaction") /\ T.sender_account_id = T.receiver_account_id)
       => /\ result.error \in ValidationErrors
          /\ Store = pre
          /\ (T.amount > 0 /\ T.fee >= 0) <=> result.error = "SenderReceiverAreTheSame"
    /\ (call.op = "save_transaction" /\ T.sender_account_id = T.receiver_account_id)
       => pc = "done"

\* a funded, stored account sends to itself, with a fee above zero
C8_Witness ==
    /\ Returned("save_transaction")
    /\ T.sender_account_id = T.receiver_account_id
    /\ T.amount > 0 /\ T.fee > 0
    /\ Stored(accounts, T.sender_account_id)
    /\ SelectFunds(accounts, T.sender_account_id) >= T.amount
    /\ result.error = "SenderReceiverAreTheSame"

\* C9: the receipt of a successful transfer carries the transaction id, the
\* sender and the receiver of the request, and sender_account_funds is the
\* sender's stored funds right after the transfer.
C9_ReceiptReflectsStore ==
    (Returned("save_transaction") /\ result.error = "Ok")
    => /\ result.value.transaction_id = T.transaction_id
       /\ result.value.sender_account_id = T.sender_account_id
       /\ result.value.receiver_account_id = T.receiver_account_id
       /\ result.value.sender_account_funds = SelectFunds(accounts, T.sender_account_id)

\* a receipt for a transfer that left the sender with funds
C9_Witness ==
    /\ Returned("save_transaction")
    /\ result.error = "Ok"
    /\ result.value.sender_account_funds = 1
    /\ T.sender_account_id # SeedAccountId

\* C10, as claimed: save_account fails with AccountAlreadyExists exactly when
\* an account with the same id is stored, and then leaves the store unchanged;
\* any other failure of the store (the CHECK on funds, a missing table) is
\* returned as the store's error.
C10_AlreadyExistsIffStored ==
    Returned("save_account")
    => /\ (result.error = "AccountAlreadyExists")
            <=> Stored(pre.accounts, call.account.account_id)
       /\ result.error # "Ok" => Store = pre

\* the persisted transactions the account id sent or received
Involving(rows, id) ==
    {i \in 1..Len(rows) : rows[i].sender_account_id = id \/ rows[i].receiver_account_id = id}

\* C11: load_account(id) returns AccountDoesNotExist when no stored account
\* has that id and otherwise returns the stored account; for an account that
\* was saved and has since been in no transfer, what it returns equals the
\* account saved in account_id, created and funds.
C11_LoadReturnsStored ==
    (Returned("load_account") /\ accounts_table)
    => LET id == call.account_id IN
       /\ ~Stored(accounts, id) => result = Err("AccountDoesNotExist")
       /\ Stored(accounts, id) =>
            /\ result.error = "Ok"
            /\ \A i \in AccountRows(accounts, id) : result.value = accounts[i]
            /\ \A p \in SavedAccounts :
                 (p[1] = id /\ Involving(transactions, id) = {})
                 => result.value = Account(p[1], p[3], p[2])

\* an account saved after the clock had moved on is loaded while others
\* have made a transfer
C11_Witness ==
    /\ Returned("load_account")
    /\ result.error = "Ok"
    /\ result.value.account_id # SeedAccountId
    /\ result.value.created > SeedStamp
    /\ result.value.funds = MaxFunds
    /\ Len(transactions) >= 1
    /\ Involving(transactions, call.account_id) = {}

\* C12: get_accounts returns every stored account exactly once (the empty
\* sequence for an empty store), in the order the store holds them, which
\* is the order in which the accounts were saved.
C12_GetAccountsListsStore ==
    (Returned("get_accounts") /\ accounts_table)
    => /\ result.error = "Ok"
       /\ Len(result.value) = Len(accounts)
       /\ \A i \in 1..Len(accounts) :
            Cardinality({j \in 1..Len(result.value) : result.value[j] = accounts[i]}) = 1
       /\ Len(result.value) = Len(saved)
       /\ \A j \in 1..Len(result.value) : result.value[j].account_id = saved[j][1]

\* three accounts are listed, after a transfer has changed the funds of two
C12_Witness ==
    /\ Returned("get_accounts")
    /\ Len(result.value) = 3
    /\ result.value[3].account_id = NewAccountIds[2]
    /\ Len(transactions) >= 1

\* the persisted transaction r is one get_transactions was asked for
Wanted(r, c) ==
    /\ r.sender_account_id = c.account_id \/ r.receiver_account_id = c.account_id
    /\ c.begin_time <= r.timestamp
    /\ r.timestamp <= c.end_time

\* C13: get_transactions(account_id, (start, end)) returns exactly the
\* persisted transactions in which account_id is the sender or the receiver
\* and whose timestamp t satisfies start <= t <= end, each exactly once; a
\* transaction committed before start, or after end, is not returned.
C13_TransactionsInRange ==
    (Returned("get_transactions") /\ ledger_table)
    => /\ result.error = "Ok"
       /\ \A i \in 1..Len(transactions) :
            Cardinality({j \in 1..Len(result.value) : result.value[j] = transactions[i]})
                = IF Wanted(transactions[i], call) THEN 1 ELSE 0
       /\ \A j \in 1..Len(result.value) :
            \E i \in 1..Len(transactions) : result.value[j] = transactions[i]

\* the account is in two persisted transactions; the range is the one instant
\* of the later one, which it received, and only that one is returned
C13_Witness ==
    /\ Returned("get_transactions")
    /\ Len(transactions) = 2
    /\ Cardinality(Involving(transactions, call.account_id)) = 2
    /\ call.begin_time = call.end_time
    /\ transactions[1].timestamp < call.begin_time
    /\ Len(result.value) = 1
    /\ result.value[1].timestamp = call.end_time
    /\ result.value[1].receiver_account_id = call.account_id

\* C14, as claimed: the sequence get_transactions returns is ordered by
\* transaction timestamp ascending, for every store state and every account.
C14_OrderedByTimestamp ==
    (Returned("get_transactions") /\ result.error = "Ok")
    => \A j \in 1..Len(result.value) : \A k \in 1..Len(result.value) :
          j < k => result.value[j].timestamp <= result.value[k].timestamp

\* C15: get_transaction(account_id, transaction_id) checks existence before
\* permission: TransactionDoesNotExist when no such transaction is persisted,
\* whatever account_id is; PermissionDenied when it is persisted and
\* account_id is neither its sender nor its receiver; and the transaction
\* exactly when account_id is its sender or its receiver.
C15_ExistenceBeforePermission ==
    (Returned("get_transaction") /\ ledger_table)
    => LET rows == TransactionRows(transactions, call.transaction_id) IN
       /\ rows = {} <=> result.error = "TransactionDoesNotExist"
       /\ \A i \in rows :
            LET party == call.account_id \in {transactions[i].sender_account_id,
                                              transactions[i].receiver_account_id}
            IN /\ party <=> result.error = "Ok"
               /\ ~party <=> result.error = "PermissionDenied"
               /\ party => result.value = transactions[i]

\* a stored account asks for a persisted transaction between two others
C15_Witness ==
    /\ Returned("get_transaction")
    /\ result.error = "PermissionDenied"
    /\ Stored(accounts, call.account_id)
    /\ TransactionRows(transactions, call.transaction_id) # {}

\* C16: load_account, get_accounts, get_transactions and get_transaction
\* leave the store unchanged, and a second call with the same arguments, with
\* no write in between, returns what the first returned, errors included.
C16_ReadsArePure ==
    [][/\ (pc = "idle" /\ pc' = "done" /\ call'.op \in ReadOps)
          => /\ accounts' = accounts
             /\ transactions' = transactions
             /\ accounts_table' = accounts_table
             /\ ledger_table' = ledger_table
       /\ (pc = "done" /\ pc' = "done" /\ call.op \in ReadOps /\ call' = call)
          => /\ result' = result
             /\ accounts' = accounts
             /\ transactions' = transactions]_vars

\* a second get_transaction has been refused as the first was, on a store
\* that holds the transaction
C16_Witness ==
    /\ Returned("get_transaction")
    /\ stmts = 2
    /\ result.error = "PermissionDenied"
    /\ Store = pre

\* the response the loop has sent in this iteration, as its receiver decodes it
Response == ServerMessagePacket_from_json(sent.bytes)

\* C17: every response envelope the dispatch loop sends carries protocol
\* version 1 and the message_id of the request envelope it answers, for every
\* request variant and whether the handler succeeded or failed.
C17_ResponseEchoesId ==
    sent # NoSend
    => /\ sent.bytes[2] = Num(ProtocolVersion)
       /\ sent.bytes[4] = Str(datagram.packet.message_id)
       /\ Response.some
       /\ Response.value.v = ProtocolVersion
       /\ Response.value.message_id = datagram.packet.message_id
       /\ Response.value.message.variant \in
            {"CreateNewAccountResponse", "GetAccountResponse", "GetAccountsResponse",
             "GetTransactionsResponse", "GetTransactionResponse",
             "CreateTransactionResponse"}

\* the answer to a transfer that was refused for want of funds
C17_Witness ==
    /\ sent # NoSend
    /\ Response.value.message.variant = "CreateTransactionResponse"
    /\ ~Response.value.message.ok
    /\ Response.value.message.error_message = <<"SenderAccountNotEnoughFunds", "">>
    /\ Response.value.message_id = "m2"
    /\ Len(transactions) >= 1

\* C18: for every request envelope p built by ClientMessagePacket::new, of
\* every variant and payload, from_json(to_json(p)) is an envelope equal to p:
\* the same version, message_id and payload.
C18_RequestRoundTrip ==
    datagram.kind = "request"
    => LET p == datagram.packet
           q == ClientMessagePacket_from_json(ClientMessagePacket_to_json(p))
       IN /\ datagram.text = ClientMessagePacket_to_json(p)
          /\ q.some
          /\ q.value.v = p.v
          /\ q.value.message_id = p.message_id
          /\ q.value.message = p.message
          /\ q.value = p

\* the loop has decoded a request to send a negative amount between two
\* accounts
C18_Witness ==
    /\ datagram.kind = "request"
    /\ server = "Handling"
    /\ datagram.packet.message.type = "CreateTransaction"
    /\ datagram.packet.message.amount < 0
    /\ datagram.packet.message.sender_id # datagram.packet.message.receiver_id
    /\ Decoded(datagram).value = datagram.packet

\* the datagrams that are no request envelope of this protocol version
Undecodable == {"binary", "cut short", "other version"}

\* C19: a datagram that does not decode to a request envelope (not UTF-8,
\* malformed, or of a protocol version other than 1) causes no response to be
\* sent and no change to the store, and the dispatch loop stays in Serving;
\* the datagram that follows it, if it is a request, is handled as any other.
C19_UndecodableIsDropped ==
    [][/\ (server = "Serving" /\ datagram' # datagram /\ datagram'.kind \in Undecodable)
          => /\ server' = "Serving"
             /\ sent' = NoSend
             /\ attempts' = 0
             /\ pc' = "idle"
             /\ accounts' = accounts
             /\ transactions' = transactions
             /\ accounts_table' = accounts_table
             /\ ledger_table' = ledger_table
       /\ (server = "Serving" /\ datagram.kind \in Undecodable
           /\ datagram' # datagram /\ datagram'.kind = "request")
          => /\ server' = "Handling"
             /\ Decoded(datagram').some
             /\ Decoded(datagram').value = datagram'.packet]_vars

\* a request to create an account, of another protocol version, has been
\* dropped by a loop that had served transfers and could have created it
C19_Witness ==
    /\ datagram.kind = "other version"
    /\ server = "Serving"
    /\ pc = "idle"
    /\ sent = NoSend
    /\ HasFresh(NewAccountIds, StoredAccountIds)
    /\ Len(transactions) >= 1

\* the step that ends the iteration of a decoded request
Answers == server = "Handling" /\ server' = "Serving"

\* the send_to of the step carried the result of the call, an error as a
\* ServerError of its kind
CarriesResult ==
    LET r == ServerMessagePacket_from_json(sent'.bytes) IN
    /\ r.some
    /\ r.value.message.ok <=> result.error = "Ok"
    /\ result.error = "Ok" => r.value.message.value = result.value
    /\ result.error # "Ok" =>
         /\ r.value.message.error_message = <<result.error, result.detail>>
         /\ r.value.message.error_type =
              IF call.op \in {"save_account", "load_account", "get_accounts"}
              THEN "AccountError" ELSE "TransactionError"

\* C20, as claimed: for every datagram that decodes to a valid request
\* envelope the loop makes exactly one attempt to send one response envelope
\* to the address the datagram came from, never retrying; when the handler
\* fails with a domain error the response is still sent and carries the
\* error as a ServerError payload.
C20_OneSendPerRequest ==
    [][/\ Answers => (attempts' = 1 /\ sent'.to = datagram.from /\ CarriesResult)
       /\ attempts' <= 1]_vars

\* What the loop does do: for a request that came from an address that is a
\* path it makes exactly one attempt to send one response envelope to that
\* address, never retrying, whether the send succeeds or fails, and an error
\* of the handler is carried as a ServerError payload; for a request from
\* an address that is no path (a socket bound to an abstract name, or never
\* bound) the call is made and no send is attempted.
OneSendPerPathRequest ==
    [][/\ Answers =>
            IF datagram.from = ClientAddress
            THEN attempts' = 1 /\ sent'.to = datagram.from /\ CarriesResult
            ELSE attempts' = 0 /\ sent' = NoSend
       /\ ~Answers => (attempts' = attempts \/ attempts' = 0)
       /\ ~Answers => (sent' = sent \/ sent' = NoSend)
       /\ attempts' <= 1]_vars

\* the loop is back at recv_from after one send_to, which failed, of the
\* answer to a request that the handler refused
OneSendWitness ==
    /\ server = "Serving"
    /\ attempts = 1
    /\ ~sent.ok
    /\ sent.to = datagram.from
    /\ datagram.packet.message.type = "GetTransaction"
    /\ Response.some
    /\ Response.value.message.error_type = "TransactionError"
    /\ Response.value.message.error_message = <<"PermissionDenied", "">>

\* a step of socket.recv_from() that returned a datagram
Receives == Len(inbox') < Len(inbox)

\* a step that changes the committed store
Writes == accounts' # accounts \/ transactions' # transactions

\* C21: the loop handles the datagrams one at a time and in arrival order:
\* a datagram is received only when no call is running and no transaction
\* is open, it is the oldest datagram not yet received, and every write to
\* the store is made for the datagram received last, the transfer recorded
\* being the one that datagram asks for.
C21_OneAtATimeInArrivalOrder ==
    [][/\ Receives =>
            /\ pc = "idle" /\ call = NoCall /\ ~tx.open
            /\ datagram' = arrived[Received + 1]
       /\ Writes =>
            /\ server = "Handling"
            /\ datagram = arrived[Received]
            /\ inbox' = inbox
       /\ transactions' # transactions =>
            LET message == datagram.packet.message
                row == transactions'[Len(transactions')]
            IN /\ message.type = "CreateTransaction"
               /\ row.sender_account_id = message.sender_id
               /\ row.receiver_account_id = message.receiver_id
               /\ row.amount = message.amount
               /\ transactions' = Append(transactions, row)]_vars

\* a transfer to the first new account is being written while the transfer
\* that gives the funds back waits in the queue
C21_Witness ==
    /\ pc = "credit"
    /\ call.transaction.sender_account_id = SeedAccountId
    /\ inbox # <<>>
    /\ inbox[1].packet.message = CreateTransaction(NewAccountIds[1], SeedAccountId, 1)

\* both transfers are recorded, in the order they arrived
C21_WitnessRecorded ==
    /\ Len(transactions) = 2
    /\ transactions[1].sender_account_id = SeedAccountId
    /\ transactions[2].sender_account_id = NewAccountIds[1]

Dispatches == Receives /\ server' = "Handling"

\* the datagram a receive step returns arrived after the flag was cleared
ArrivedAfterSignal == raised >= 0 /\ Received + 1 > raised

\* the loop has been left with nothing of the last iteration unfinished:
\* no call is running, no transaction is open, and the request received
\* last has had its response handed to send_to
Drained ==
    /\ pc = "idle"
    /\ call = NoCall
    /\ ~tx.open
    /\ datagram.kind = "request" => attempts = 1

C23_WitnessLate ==
    /\ server = "Handling"
    /\ late
    /\ raised = 0
    /\ pc = "done"

\* C24: the loop is left only after the flag has been cleared.
C24_LeavesOnlyAfterSignal ==
    [][(/\ server \in {"Serving", "Receiving", "Handling"}
        /\ server' \in {"Draining", "Terminated"}) => ~running]_vars

\* thread c returns from send_and_recv_msg in this step
Returns(c) == client[c].pc # "returned" /\ client'[c].pc = "returned"

\* C25: a call that bound its address has removed the socket file when it
\* returns.
C25_AddressRemovedOnReturn ==
    [][\A c \in Callers :
         Returns(c) /\ client'[c].bound => client'[c].address \notin files']_vars

\* C26: the addresses that the calls of a process derive are distinct.
C26_AddressesDistinct ==
    \A i \in 1..Len(derived), j \in 1..Len(derived) :
        i # j => derived[i] # derived[j]

\* a call that has returned after it received a datagram
Answered(c) == client[c].pc = "returned" /\ client[c].reply.kind # "none"

\* C27: a call returns a payload only for a datagram that is a response
\* envelope of protocol version 1 with the message_id of the request sent,
\* and the payload is that envelope's; a response with another message_id,
\* of another version, or one that does not decode, yields None.
C27_PayloadOnlyForMatchingReply ==
    \A c \in Callers :
        Answered(c) =>
            LET reply == client[c].reply
                r == client[c].result
            IN /\ r.some =>
                    /\ reply.kind = "reply"
                    /\ reply.packet.v = ProtocolVersion
                    /\ reply.packet.message_id = client[c].message_id
                    /\ r.value = reply.packet.message
               /\ reply.kind \in {"other id", "other version", "cut short", "binary"}
                    => ~r.some
               /\ reply.kind = "reply" => r.some

\* one thread was given the error payload of its own request, the other
\* was given None for a response that carries another message_id
C27_Witness ==
    /\ Answered("c1")
    /\ client["c1"].result.some
    /\ ~client["c1"].result.value.ok
    /\ Answered("c2")
    /\ client["c2"].reply.kind = "other id"
    /\ client["c2"].reply.packet.message_id = "m1"
    /\ ~client["c2"].result.some

\* C28: every call returns, the response or None, after at most one send
\* and at most one receive.
C28_ReturnsAfterOneExchange ==
    /\ [](\A c \in Callers : client[c].sends <= 1 /\ client[c].recvs <= 1)
    /\ \A c \in Callers :
         (client[c].pc \notin {"idle", "returned"}) ~> (client[c].pc = "returned")

\* what holds of every call: at most one send and one receive, and a call
\* that does not return has panicked in its send
OneExchangeOrPanic ==
    /\ [](\A c \in Callers : client[c].sends <= 1 /\ client[c].recvs <= 1)
    /\ \A c \in Callers :
         (client[c].pc \notin {"idle", "returned"})
            ~> (client[c].pc \in {"returned", "panicked"})

\* C29: the response to a request whose handler failed in the store names
\* the kind of error and carries nothing of the failure itself.
C29_StoreFailureIsOpaque ==
    [][(Answers /\ result.error = "SQLError" /\ sent' # NoSend) =>
         LET m == ServerMessagePacket_from_json(sent'.bytes).value.message
         IN /\ ~m.ok
            /\ m.error_type = ErrorType(call.op)
            /\ m.error_message = <<"SQLError", "">>]_vars

\* the accounts that Account::new() made, as they were saved
NewAccounts == {i \in 1..Len(saved) : saved[i][1] # SeedAccountId}

\* C30: an account of Account::new() has funds 0, and two of them differ in
\* account_id and in created.
C30_NewAccountsDiffer ==
    /\ \A i \in NewAccounts : saved[i][2] = 0
    /\ \A i \in NewAccounts, j \in NewAccounts :
         i # j => saved[i][1] # saved[j][1] /\ saved[i][3] # saved[j][3]

\* what holds of them: funds 0, distinct account_ids, and created in the
\* order of the calls as long as the clock does not step back
NewAccountsInOrder ==
    /\ \A i \in NewAccounts : saved[i][2] = 0
    /\ \A i \in NewAccounts, j \in NewAccounts :
         i < j => saved[i][1] # saved[j][1] /\ saved[i][3] <= saved[j][3]

\* two accounts were made at different readings of the clock
NewAccountsWitness ==
    /\ Len(saved) = 3
    /\ saved[2][3] < saved[3][3]

\* the row a step has just added to the rows `rows`
Last(rows) == rows[Len(rows)]

\* C31: the timestamp of a persisted transaction is the clock's reading at
\* the ledger insert, taken after the debit and the credit and before the
\* commit, and the receipt carries that timestamp; the timestamp of the
\* caller's Transaction value has no part in either.
C31_EngineAssignsTimestamp ==
    [][/\ (pc = "insert" /\ pc' = "commit") =>
            /\ tx.accounts # accounts
            /\ receipt_timestamp' = now
            /\ Last(tx'.transactions).timestamp = now
            /\ transactions' = transactions
       /\ (pc = "commit" /\ pc' = "done" /\ result'.error = "Ok") =>
            /\ Last(transactions').transaction_id = T.transaction_id
            /\ Last(transactions').timestamp = receipt_timestamp
            /\ result'.value.timestamp = receipt_timestamp]_vars

\* a transfer has returned its receipt, and the timestamp of the caller's
\* Transaction value was later than the one persisted and returned
C31_Witness ==
    /\ Returned("save_transaction")
    /\ result.error = "Ok"
    /\ T.timestamp > result.value.timestamp
    /\ Last(transactions).timestamp = result.value.timestamp

\* the same with a caller's timestamp that was earlier
C31_WitnessEarlier ==
    /\ Returned("save_transaction")
    /\ result.error = "Ok"
    /\ T.timestamp < result.value.timestamp
    /\ Last(transactions).timestamp = result.value.timestamp

\* C32: every persisted transaction has a positive amount, a fee that is not
\* negative, a sender other than its receiver, and a sender and a receiver
\* that are stored accounts.
C32_PersistedTransactionsAreValid ==
    \A i \in 1..Len(transactions) :
        LET row == transactions[i] IN
        /\ row.amount > 0
        /\ row.fee >= 0
        /\ row.sender_account_id # row.receiver_account_id
        /\ Stored(accounts, row.sender_account_id)
        /\ Stored(accounts, row.receiver_account_id)

\* two transfers are persisted, and a transfer to an account that is not
\* stored has just been refused
C32_Witness ==
    /\ Len(transactions) = 2
    /\ Returned("save_transaction")
    /\ result.error = "ReceiverAccountDoesNotExist"

\* C33: the ledger is append-only.  No step removes or changes a committed
\* row; a step that adds rows adds one, and it is the commit of a transfer
\* that returns its receipt; and when the core has answered a request the
\* ledger has one row more than when the handler was entered if the request
\* was a transfer that succeeded, and as many rows otherwise.
C33_LedgerAppendOnly ==
    [][/\ Len(transactions') >= Len(transactions)
       /\ SubSeq(transactions', 1, Len(transactions)) = transactions
       /\ transactions' # transactions =>
            /\ Len(transactions') = Len(transactions) + 1
            /\ call.op = "save_transaction"
            /\ result'.error = "Ok"
            /\ Last(transactions').transaction_id = result'.value.transaction_id
       /\ Answers =>
            Len(transactions) - Len(pre.transactions) =
                IF call.op = "save_transaction" /\ result.error = "Ok" THEN 1 ELSE 0]_vars

\* the second transfer has been committed behind the first, which names
\* other accounts, and its request is about to be answered
C33_Witness ==
    /\ server = "Handling"
    /\ Returned("save_transaction")
    /\ result.error = "Ok"
    /\ Len(transactions) = 2
    /\ Len(pre.transactions) = 1
    /\ transactions[1] = pre.transactions[1]
    /\ transactions[1].sender_account_id # transactions[2].sender_account_id

\* a step that enters save_transaction
EntersTransfer == pc = "idle" /\ call'.op = "save_transaction"

\* C34: a transfer with a fee above zero is stopped before the store
\* transaction is opened, by a sanity check or by the assertion, and changes
\* neither the accounts nor the ledger; the core calls save_transaction with
\* fee 0 only; and every persisted transaction has fee 0.
C34_NonZeroFeeNeverAccepted ==
    [][/\ (EntersTransfer /\ call'.transaction.fee > 0) =>
            /\ accounts' = accounts
            /\ transactions' = transactions
            /\ ~tx'.open
            /\ \/ pc' = "down"
               \/ pc' = "done" /\ result'.error \in ValidationErrors
       /\ (EntersTransfer /\ server = "Handling") => call'.transaction.fee = 0
       /\ \A i \in 1..Len(transactions') : transactions'[i].fee = 0]_vars

\* a transfer between stored accounts with a positive amount and fee 1 has
\* ended in the assertion, on a store that holds a transfer
C34_Witness ==
    /\ pc = "down"
    /\ call.op = "save_transaction"
    /\ T.fee = 1
    /\ ~tx.open
    /\ Len(transactions) = 1
    /\ Stored(accounts, T.sender_account_id)
    /\ Stored(accounts, T.receiver_account_id)

\* the response variant that belongs to a request variant
VariantFor(type) ==
    CASE type = "CreateNewAccount" -> "CreateNewAccountResponse"
      [] type = "GetAccount" -> "GetAccountResponse"
      [] type = "GetAccounts" -> "GetAccountsResponse"
      [] type = "GetTransactions" -> "GetTransactionsResponse"
      [] type = "GetTransaction" -> "GetTransactionResponse"
      [] type = "CreateTransaction" -> "CreateTransactionResponse"

\* C35: the response sent for a request is of the variant that belongs to
\* the request's variant, for a handler that succeeded and for one that failed.
C35_ResponseVariantMatchesRequest ==
    sent # NoSend =>
        /\ Response.some
        /\ Response.value.message.variant = VariantFor(datagram.packet.message.type)

\* the list of the accounts, and the error of a transfer, have each been
\* sent in the variant of their request
C35_Witness ==
    /\ sent # NoSend
    /\ datagram.packet.message.type = "GetTransaction"
    /\ ~Response.value.message.ok
    /\ Response.value.message.variant = "GetTransactionResponse"

C35_WitnessAccounts ==
    /\ sent # NoSend
    /\ datagram.packet.message.type = "GetAccounts"
    /\ Response.value.message.ok
    /\ Response.value.message.variant = "GetAccountsResponse"

\* the sum of the funds of the rows
RECURSIVE TotalFunds(_)
TotalFunds(rows) ==
    IF rows = <<>> THEN 0 ELSE rows[1].funds + TotalFunds(Tail(rows))

\* C37: under the requests of the protocol the sum of the funds of the stored
\* accounts is at every moment the funds the seed account was created with:
\* no transfer, successful or failed, no query and no new account changes it.
C37_FundsConserved == TotalFunds(accounts) = SeedFunds

\* a transfer has moved funds to an account created by a request, and a
\* later request has been answered with an error
C37_Witness ==
    /\ Len(transactions) >= 1
    /\ \E i \in 1..Len(accounts) :
          accounts[i].account_id # SeedAccountId /\ accounts[i].funds > 0
    /\ sent # NoSend
    /\ datagram.packet.message.type = "CreateTransaction"
    /\ ~Response.value.message.ok

\* the call in progress is a transfer whose transaction_id was persisted
\* when it was called
Replays ==
    /\ call # NoCall
    /\ call.op = "save_transaction"
    /\ pre # NoStore
    /\ TransactionRows(pre.transactions, call.transaction.transaction_id) # {}

\* the call in progress repeats a persisted transfer field by field
ReplaysSameTransfer ==
    /\ Replays
    /\ \E i \in TransactionRows(pre.transactions, call.transaction.transaction_id) :
          /\ pre.transactions[i].sender_account_id = call.transaction.sender_account_id
          /\ pre.transactions[i].receiver_account_id = call.transaction.receiver_account_id
          /\ pre.transactions[i].amount = call.transaction.amount
          /\ pre.transactions[i].fee = call.transaction.fee

\* C38 as stated: the replay of a persisted transfer, when the store itself
\* works, fails with the store's error at the ledger insert.
C38_ReplayFailsAtInsert ==
    (ReplaysSameTransfer /\ pc = "done" /\ result # SQLError("disk I/O error")) =>
        result = SQLError("UNIQUE constraint failed")

\* C38 (amended): a replay never debits or credits again.  While it runs and
\* after it the committed balances and ledger are those of before the call;
\* it never reaches the commit and never returns Ok; when it reaches the
\* ledger insert it fails there with the store's error, the debit and the
\* credit of its store transaction being dropped with it; before that it
\* fails with the error of the earlier step.
C38_ReplayChangesNothing ==
    Replays =>
        /\ accounts = pre.accounts
        /\ transactions = pre.transactions
        /\ pc # "commit"
        /\ pc = "done" => (result.error # "Ok" /\ tx = NoTx)
        /\ (pc = "done" /\ stmts = 5) =>
              result \in {SQLError("UNIQUE constraint failed"), SQLError("disk I/O error")}
        /\ (pc = "done" /\ result = SQLError("UNIQUE constraint failed")) => stmts = 5

\* a replay has failed at the ledger insert, after its debit and credit
C38_Witness ==
    /\ Replays
    /\ pc = "done"
    /\ stmts = 5
    /\ result = SQLError("UNIQUE constraint failed")

\* the replay of a persisted transfer has failed at the funds check
C38_WitnessFunds ==
    /\ ReplaysSameTransfer
    /\ pc = "done"
    /\ result = Err("SenderAccountNotEnoughFunds")

\* a step of startup: the core was not running and now is
Starts == server \in {"Off", "Terminated"} /\ server' \notin {"Off", "Terminated"}

\* C39: seeding at startup is idempotent.  The store never holds two rows
\* of the seed account; a row of the seed account appears only in a startup
\* on a store without one, with the fixed id, the fixed timestamp and funds
\* 100000; a startup on a store that has the row leaves every account,
\* the seed's current funds included, and the ledger as they are; and every
\* startup goes on to Serving.
C39_SeedingIdempotent ==
    [][/\ Cardinality(AccountRows(accounts', SeedAccountId)) <= 1
       /\ (AccountRows(accounts, SeedAccountId) = {} /\ AccountRows(accounts', SeedAccountId) # {})
             => /\ Starts
                /\ accounts' = Append(accounts, [account_id |-> SeedAccountId,
                                                created |-> SeedStamp, funds |-> 100000])
       /\ Starts =>
             /\ server' = "Serving"
             /\ pc' = "idle"
             /\ transactions' = transactions
             /\ AccountRows(accounts, SeedAccountId) # {} => accounts' = accounts
             /\ AccountRows(accounts, SeedAccountId) = {} =>
                    \A i \in 1..Len(accounts) : accounts'[i] = accounts[i]]_vars

\* the core serves again, no request received yet, on a store whose seed
\* account has paid a transfer: its funds are not those it was seeded with
C39_Witness ==
    /\ server = "Serving"
    /\ datagram = NoDatagram
    /\ Len(transactions) >= 1
    /\ \E i \in AccountRows(accounts, SeedAccountId) : accounts[i].funds < 100000

\* the first startup has created the seed account
C39_WitnessFirst ==
    /\ server = "Serving"
    /\ datagram = NoDatagram
    /\ accounts = <<[account_id |-> SeedAccountId, created |-> SeedStamp, funds |-> 100000]>>

\* the request the call of thread c has sent
RequestOf(c) ==
    arrived[CHOOSE i \in 1..Len(arrived) :
                arrived[i].packet.message_id = client[c].message_id].packet.message

\* the datagrams at the socket of thread c: those in its queue and the one
\* its recv() has returned
AtSocket(c) ==
    {client[c].queue[i] : i \in 1..Len(client[c].queue)}
    \cup (IF client[c].pc = "received" THEN {client[c].reply} ELSE {})

\* the payload is the receipt of a transfer
IsReceipt(m) == m.variant = "CreateTransactionResponse" /\ m.ok

\* exactly one committed row has the receipt's transaction_id, and it has
\* the receipt's sender and receiver
CommittedOnce(receipt) ==
    /\ Cardinality(TransactionRows(transactions, receipt.transaction_id)) = 1
    /\ \A i \in TransactionRows(transactions, receipt.transaction_id) :
          /\ transactions[i].sender_account_id = receipt.sender_account_id
          /\ transactions[i].receiver_account_id = receipt.receiver_account_id

\* C40: commit before reply, from end to end.  A receipt that has reached a
\* client's socket, and a receipt a call has returned, is the receipt of a
\* transfer committed exactly once with the receipt's id, sender and receiver;
\* and what a call returns is the response to the request this call sent:
\* it carries the call's message id, is of the variant of the call's
\* request, and a receipt names the sender and the receiver of that request.
C40_CommitBeforeReply ==
    \A c \in Callers :
        /\ \A d \in AtSocket(c) : IsReceipt(d.packet.message) => CommittedOnce(d.packet.message.value)
        /\ (client[c].pc = "returned" /\ client[c].result.some) =>
              LET m == client[c].result.value
              IN /\ client[c].message_id \in SentMessageIds
                 /\ client[c].reply.packet.message_id = client[c].message_id
                 /\ m.variant = VariantFor(RequestOf(c).type)
                 /\ IsReceipt(m) =>
                       /\ CommittedOnce(m.value)
                       /\ m.value.sender_account_id = RequestOf(c).sender_id
                       /\ m.value.receiver_account_id = RequestOf(c).receiver_id

\* a call for a transfer has returned its receipt
C40_Witness ==
    \E c \in Callers :
        /\ client[c].pc = "returned"
        /\ client[c].result.some
        /\ IsReceipt(client[c].result.value)
        /\ RequestOf(c).type = "CreateTransaction"

\* a call has returned nothing, having received the response to the request
\* of another call
C40_WitnessOtherCall ==
    \E c \in Callers :
        /\ client[c].pc = "returned"
        /\ ~client[c].result.some
        /\ client[c].reply # NoDatagram
        /\ client[c].reply.packet.message_id # client[c].message_id

\* thread c sends its request in this step
Sends(c) == client[c].pc = "connected" /\ client'[c].pc = "sent"

\* the request that has just joined the queue of the core's socket
Sent == arrived'[Len(arrived')].packet.message

\* the header of the request thread c handles carries a token of a row of
\* `auth` for the account, not expired when the handler ran
HoldsToken(c, account_id) ==
    /\ http[c].header.scheme = "Bearer"
    /\ \E i \in 1..Len(auth) :
          /\ auth[i].account_id = account_id
          /\ auth[i].token = http[c].header.token
          /\ http[c].at <= auth[i].expiry

\* C36: a request for an account, for its transactions, for one of them or
\* for a transfer is sent to the core only by a handler whose request
\* carried a valid token of the account of its path, and the request sent
\* names that account as account_id, a transfer as sender_id.
C36_SendsOnlyValidated ==
    [][\A c \in Callers :
         Sends(c) =>
            /\ Sent = http[c].message
            /\ Sent.type \in {"GetAccount", "GetTransactions", "GetTransaction"} =>
                  /\ http[c].path # ""
                  /\ HoldsToken(c, http[c].path)
                  /\ Sent.account_id = http[c].path
            /\ Sent.type = "CreateTransaction" =>
                  /\ http[c].path # ""
                  /\ HoldsToken(c, http[c].path)
                  /\ Sent.sender_id = http[c].path]_vars

\* a handler has sent the transfer of the account of its path
C36_Witness ==
    \E c \in Callers :
        /\ client[c].pc = "sent"
        /\ http[c].route = "create_transaction"
        /\ http[c].path = NewAccountIds[1]
        /\ arrived[Len(arrived)].packet.message.type = "CreateTransaction"
        /\ arrived[Len(arrived)].packet.message.sender_id = NewAccountIds[1]

\* a handler has refused a request while the account has a token
C36_WitnessRefused ==
    \E c \in Callers :
        /\ http[c].state = "responded"
        /\ http[c].status = 401
        /\ auth # <<>>

====
